---- MODULE Spec2Model ----
(***************************************************************************)
(* A model of src/Sub_IR_Protocol.py, the interactive Flipper Zero         *)
(* protocol file generator (class InteractiveFlipperGenerator).            *)
(*                                                                         *)
(* Text is modelled as a sequence of tokens.  A token is either one        *)
(* character of operator input or of a rendered number ("4", "A", " "),    *)
(* or one literal fragment of the source ("Frequency: ", "Holtek").  The   *)
(* literal "name: Custom_RAW" is the two tokens "name: Custom_", "RAW".    *)
(* Python's None for an optional value is the empty sequence and a given   *)
(* value v is <<v>>.  A float is held as the text str() prints for it.     *)
(***************************************************************************)
EXTENDS Integers, Sequences, FiniteSets, TLC

VARIABLES pc,          \* where control is: a prompt of a wizard, or a call
          handler,     \* the main-menu handler that is running
          typed,       \* what the operator typed at the prompts of this run
          kwargs,      \* the keyword arguments of the last serializer call
          written,     \* the files written by the running handler, in order
          protocol, frequency, raw_data, key, data, te, repeat, address,
          command, duty_cycle, output_file,   \* the wizard's locals
          hex_chars, notice,                  \* get_protocol_data's locals
          report       \* the result lines an analysis tool has printed

vars == <<pc, handler, typed, kwargs, written, protocol, frequency, raw_data,
          key, data, te, repeat, address, command, duty_cycle, output_file,
          hex_chars, notice, report>>

(***************************************************************************)
(* Bounds of the model.                                                    *)
(***************************************************************************)
MaxKeyLen == 5
MaxBytes == 2
MaxRepeats == 3
MaxBits == 3
MaxTimings == 3

MaxRawLen == 3

(***************************************************************************)
(* Python string primitives on token sequences.                            *)
(***************************************************************************)
NL == "\n"

None == <<>>

LowerChars == <<"a", "b", "c", "d", "e", "f", "g", "h", "i", "j", "k", "l", "m",
                "n", "o", "p", "q", "r", "s", "t", "u", "v", "w", "x", "y", "z">>

UpperChars == <<"A", "B", "C", "D", "E", "F", "G", "H", "I", "J", "K", "L", "M",
                "N", "O", "P", "Q", "R", "S", "T", "U", "V", "W", "X", "Y", "Z">>

Digits == <<"0", "1", "2", "3", "4", "5", "6", "7", "8", "9">>

Whitespace == {" ", "\t"}

\* str.upper(), one character
UpperChar(c) ==
    IF \E i \in DOMAIN LowerChars : LowerChars[i] = c
    THEN UpperChars[CHOOSE i \in DOMAIN LowerChars : LowerChars[i] = c]
    ELSE c

\* str.lower(), one character
LowerChar(c) ==
    IF \E i \in DOMAIN UpperChars : UpperChars[i] = c
    THEN LowerChars[CHOOSE i \in DOMAIN UpperChars : UpperChars[i] = c]
    ELSE c

Upper(s) == [i \in DOMAIN s |-> UpperChar(s[i])]

Lower(s) == [i \in DOMAIN s |-> LowerChar(s[i])]

\* str.strip(): leading and trailing whitespace removed
RECURSIVE LStrip(_)
LStrip(s) ==
    IF s # <<>> /\ s[1] \in Whitespace THEN LStrip(Tail(s)) ELSE s

RECURSIVE RStrip(_)
RStrip(s) ==
    IF s # <<>> /\ s[Len(s)] \in Whitespace
    THEN RStrip(SubSeq(s, 1, Len(s) - 1))
    ELSE s

Strip(s) == RStrip(LStrip(s))

\* s.startswith(p)
StartsWith(s, p) == Len(s) >= Len(p) /\ SubSeq(s, 1, Len(p)) = p

\* s.replace(p, ''): every non-overlapping occurrence of p, leftmost first
RECURSIVE Remove(_, _)
Remove(s, p) ==
    IF s = <<>> THEN <<>>
    ELSE IF StartsWith(s, p) THEN Remove(SubSeq(s, Len(p) + 1, Len(s)), p)
    ELSE <<s[1]>> \o Remove(Tail(s), p)

Zeros(n) == [i \in 1..n |-> "0"]

\* zfill with the zeros on the wrong side
Zfill_RightPad(s, width) ==
    IF Len(s) >= width THEN s ELSE s \o Zeros(width - Len(s))

\* s.zfill(width): '0' on the left, after a leading sign
Zfill(s, width) ==
    IF Len(s) >= width THEN s
    ELSE IF s # <<>> /\ s[1] \in {"+", "-"}
         THEN <<s[1]>> \o Zeros(width - Len(s)) \o Tail(s)
         ELSE Zeros(width - Len(s)) \o s

\* sep.join(parts) for a one-token separator
RECURSIVE Join(_, _)
Join(parts, sep) ==
    IF parts = <<>> THEN <<>>
    ELSE IF Len(parts) = 1 THEN parts[1]
    ELSE parts[1] \o <<sep>> \o Join(Tail(parts), sep)

\* str(n) of an integer
RECURSIVE NatStr(_)
NatStr(n) ==
    IF n < 10 THEN <<Digits[n + 1]>>
    ELSE NatStr(n \div 10) \o <<Digits[(n % 10) + 1]>>

\* mutant of Str: the magnitude without its sign
Str_Magnitude(n) == IF n < 0 THEN NatStr(-n) ELSE NatStr(n)

Str(n) == IF n < 0 THEN <<"-">> \o NatStr(-n) ELSE NatStr(n)

\* [s[i:i+2] for i in range(0, len(s), 2)]
RECURSIVE Pairs(_)
Pairs(s) ==
    IF s = <<>> THEN <<>>
    ELSE IF Len(s) = 1 THEN <<s>>
    ELSE <<SubSeq(s, 1, 2)>> \o Pairs(SubSeq(s, 3, Len(s)))

\* ' '.join(s[i:i+2] for i in range(0, len(s), 2))
GroupPairs(s) == Join(Pairs(s), " ")

(***************************************************************************)
(* The protocol catalog (__init__).                                        *)
(***************************************************************************)
subghz_list == <<"Princeton", "Nice_Flo", "Came", "Linear", "Gate_TX",
                 "Chamberlain", "DoorHan", "Somfy_Telis", "Star_Line",
                 "Holtek", "RAW">>

subghz_protocols(name) ==
    CASE name = "Princeton"   -> [bits |-> 24, key_bytes |-> 8, needs_te |-> TRUE, default_te |-> 400]
      [] name = "Nice_Flo"    -> [bits |-> 12, key_bytes |-> 3, needs_te |-> FALSE]
      [] name = "Came"        -> [bits |-> 12, key_bytes |-> 3, needs_te |-> FALSE]
      [] name = "Linear"      -> [bits |-> 10, key_bytes |-> 3, needs_te |-> FALSE]
      [] name = "Gate_TX"     -> [bits |-> 24, key_bytes |-> 6, needs_te |-> FALSE]
      [] name = "Chamberlain" -> [bits |-> 32, key_bytes |-> 8, needs_te |-> FALSE]
      [] name = "DoorHan"     -> [bits |-> 24, key_bytes |-> 6, needs_te |-> FALSE]
      [] name = "Somfy_Telis" -> [bits |-> 56, key_bytes |-> 14, needs_te |-> FALSE]
      [] name = "Star_Line"   -> [bits |-> 64, key_bytes |-> 16, needs_te |-> FALSE]
      [] name = "Holtek"      -> [bits |-> 40, key_bytes |-> 10, needs_te |-> FALSE]
      [] name = "RAW"         -> [bits |-> 0, key_bytes |-> 0, needs_te |-> FALSE]

ir_list == <<"NEC", "NECext", "Samsung32", "RC5", "RC6", "SIRC", "SIRC15",
             "SIRC20", "RAW">>

ir_protocols(name) ==
    CASE name = "NEC"       -> [address_bits |-> 8, command_bits |-> 8]
      [] name = "NECext"    -> [address_bits |-> 16, command_bits |-> 8]
      [] name = "Samsung32" -> [address_bits |-> 8, command_bits |-> 8]
      [] name = "RC5"       -> [address_bits |-> 5, command_bits |-> 6]
      [] name = "RC6"       -> [address_bits |-> 8, command_bits |-> 8]
      [] name = "SIRC"      -> [address_bits |-> 5, command_bits |-> 7]
      [] name = "SIRC15"    -> [address_bits |-> 8, command_bits |-> 7]
      [] name = "SIRC20"    -> [address_bits |-> 13, command_bits |-> 7]
      [] name = "RAW"       -> [address_bits |-> 0, command_bits |-> 0]

common_frequencies == <<315000000, 433920000, 868000000, 915000000>>

\* d.get(k, default) on a catalog entry or a keyword-argument set
Get(d, k, default) == IF k \in DOMAIN d THEN d[k] ELSE default

(***************************************************************************)
(* get_protocol_data, the key branch: the typed key made canonical.        *)
(***************************************************************************)
\* the cleaning without the upper() call
CleanHex_NoUpper(k) == Remove(Remove(k, <<"0", "x">>), <<" ">>)

\* key.replace('0x', '').replace(' ', '').upper()
CleanHex(k) == Upper(Remove(Remove(k, <<"0", "x">>), <<" ">>))

\* the else-branch of `key.lower() == 'random'`: [key, notice]
NormalizeKey(k, hc) ==
    IF k = <<>> THEN [key |-> k, notice |-> "none"]
    ELSE LET c == CleanHex(k)
             t == IF Len(c) > hc THEN SubSeq(c, 1, hc)
                  ELSE IF Len(c) < hc THEN Zfill(c, hc)
                  ELSE c
             n == IF Len(c) > hc THEN "truncated"
                  ELSE IF Len(c) < hc THEN "padded"
                  ELSE "none"
         IN  [key |-> GroupPairs(t), notice |-> n]

\* the data prompt: cleaned and grouped, no width applied
NormalizeData(d) ==
    IF d = <<>> THEN d ELSE GroupPairs(CleanHex(d))

\* random.choice('0123456789ABCDEF') for each of hex_chars positions; the model
\* draws the digits at odd positions and those at even positions together
HexDigits == <<"0", "1", "2", "3", "4", "5", "6", "7", "8", "9",
               "A", "B", "C", "D", "E", "F">>

RandomDraws == {"0", "9", "F"}

RandomHex(hc, d1, d2) == [i \in 1..hc |-> IF i % 2 = 1 THEN d1 ELSE d2]

\* lines 727-747: the key prompt, stripped, then random or made canonical
ReadKey(text, hc, d1, d2) ==
    LET k == Strip(text)
    IN  IF Lower(k) = <<"r", "a", "n", "d", "o", "m">>
        THEN [key |-> GroupPairs(RandomHex(hc, d1, d2)), notice |-> "none"]
        ELSE NormalizeKey(k, hc)

(***************************************************************************)
(* create_subghz_file.                                                     *)
(***************************************************************************)
DefaultPreset == <<"FuriHalSubGhzPresetOok270Async">>

\* lines 821-825
SubghzHeader(kw) ==
    << <<"Filetype: ", "Flipper SubGhz Key File">>,
       <<"Version: ", "1">>,
       <<"Frequency: ">> \o Str(kw.frequency),
       <<"Preset: ">> \o Get(kw, "preset", DefaultPreset),
       <<"Protocol: ", kw.protocol>> >>

\* line 828
RawDataLine(kw) ==
    << <<"RAW_Data: ">> \o Join([i \in DOMAIN kw.raw_data |-> Str(kw.raw_data[i])], " ") >>

\* lines 831-832
BitLine(kw) ==
    IF Get(kw, "bit_count", 0) # 0
    THEN << <<"Bit: ">> \o Str(kw.bit_count) >>
    ELSE <<>>

\* lines 835-836
KeyLine(kw) ==
    IF Get(kw, "key", <<>>) # <<>>
    THEN << <<"Key: ">> \o kw.key >>
    ELSE <<>>

\* a TE line written with the default when none was given
TELine_DefaultTE(kw) ==
    << <<"TE: ">> \o Str(Get(kw, "te", 400)) >>

\* lines 839-840
TELine(kw) ==
    IF Get(kw, "te", 0) # 0
    THEN << <<"TE: ">> \o Str(kw.te) >>
    ELSE <<>>

\* lines 843-844
DataLine(kw) ==
    IF Get(kw, "data", <<>>) # <<>>
    THEN << <<"Data: ">> \o kw.data >>
    ELSE <<>>

\* the repeat test written >= 1
RepeatLine_AtLeastOne(kw) ==
    LET rep == Get(kw, "repeat", 1)
    IN  IF rep >= 1 THEN << <<"Repeat: ">> \o Str(rep) >> ELSE <<>>

\* lines 847-849
RepeatLine(kw) ==
    LET rep == Get(kw, "repeat", 1)
    IN  IF rep > 1 THEN << <<"Repeat: ">> \o Str(rep) >> ELSE <<>>

\* the structured fields emitted after RAW_Data as well
SubghzBody_RawKeepsFields(kw) ==
    (IF kw.protocol = "RAW" THEN RawDataLine(kw) ELSE <<>>)
    \o BitLine(kw) \o KeyLine(kw) \o TELine(kw) \o DataLine(kw) \o RepeatLine(kw)

\* the Key line appended before the Bit line
SubghzBody_KeyFirst(kw) ==
    IF kw.protocol = "RAW"
    THEN RawDataLine(kw)
    ELSE KeyLine(kw) \o BitLine(kw) \o TELine(kw) \o DataLine(kw) \o RepeatLine(kw)

\* lines 827-849
SubghzBody(kw) ==
    IF kw.protocol = "RAW"
    THEN RawDataLine(kw)
    ELSE BitLine(kw) \o KeyLine(kw) \o TELine(kw) \o DataLine(kw) \o RepeatLine(kw)

\* content = '\n'.join(lines) + '\n'
FileContent(lines) == Join(lines, NL) \o <<NL>>

\* a subscript kwargs['k'] of a missing k raises KeyError before the file is opened
SubghzRaises(kw) ==
    \/ "frequency" \notin DOMAIN kw
    \/ "protocol" \notin DOMAIN kw
    \/ kw.protocol = "RAW" /\ "raw_data" \notin DOMAIN kw
    \/ "output_file" \notin DOMAIN kw

CreateSubghzFile(kw) ==
    [filename |-> kw.output_file,
     content  |-> FileContent(SubghzHeader(kw) \o SubghzBody(kw))]

(***************************************************************************)
(* create_ir_file.                                                         *)
(***************************************************************************)
DefaultIrFrequency == 38000

DefaultDutyCycle == <<"0", ".", "3", "3">>

\* the raw branch also naming the protocol
IrRawLines_WithProtocol(kw) ==
    << <<"name: Custom_", "RAW">>,
       <<"type: ", "raw">>,
       <<"protocol: ", kw.protocol>>,
       <<"frequency: ">> \o Str(Get(kw, "frequency", DefaultIrFrequency)),
       <<"duty_cycle: ">> \o Get(kw, "duty_cycle", DefaultDutyCycle),
       <<"data: ">> \o Join([i \in DOMAIN kw.raw_data |-> Str(kw.raw_data[i])], " ") >>

\* lines 867-873
IrRawLines(kw) ==
    << <<"name: Custom_", "RAW">>,
       <<"type: ", "raw">>,
       <<"frequency: ">> \o Str(Get(kw, "frequency", DefaultIrFrequency)),
       <<"duty_cycle: ">> \o Get(kw, "duty_cycle", DefaultDutyCycle),
       <<"data: ">> \o Join([i \in DOMAIN kw.raw_data |-> Str(kw.raw_data[i])], " ") >>

\* lines 875-881
IrParsedLines(kw) ==
    << <<"name: Custom_", kw.protocol>>,
       <<"type: ", "parsed">>,
       <<"protocol: ", kw.protocol>>,
       <<"address: ">> \o kw.address,
       <<"command: ">> \o kw.command >>

\* lines 864-881
IrLines(kw) ==
    << <<"Filetype: ", "IR signals file">>, <<"Version: ", "1">> >>
    \o (IF kw.protocol = "RAW" THEN IrRawLines(kw) ELSE IrParsedLines(kw))

IrRaises(kw) ==
    \/ "protocol" \notin DOMAIN kw
    \/ kw.protocol = "RAW" /\ "raw_data" \notin DOMAIN kw
    \/ kw.protocol # "RAW" /\ ("address" \notin DOMAIN kw \/ "command" \notin DOMAIN kw)
    \/ "output_file" \notin DOMAIN kw

CreateIrFile(kw) ==
    [filename |-> kw.output_file, content |-> FileContent(IrLines(kw))]

(***************************************************************************)
(* Reading a written file back: its lines and their labels.                *)
(***************************************************************************)
\* content.split('\n')
RECURSIVE SplitLines(_)
SplitLines(c) ==
    IF \A i \in DOMAIN c : c[i] # NL THEN <<c>>
    ELSE LET k == CHOOSE i \in DOMAIN c :
                      c[i] = NL /\ \A j \in 1..(i - 1) : c[j] # NL
         IN  <<SubSeq(c, 1, k - 1)>> \o SplitLines(SubSeq(c, k + 1, Len(c)))

\* the lines of a file: the pieces before each newline
FileLines(c) ==
    LET parts == SplitLines(c) IN SubSeq(parts, 1, Len(parts) - 1)

LabelOf(line) == IF line = <<>> THEN "" ELSE line[1]

Labels(c) == LET L == FileLines(c) IN [i \in DOMAIN L |-> LabelOf(L[i])]

HasLine(c, label) == LET L == Labels(c) IN \E i \in DOMAIN L : L[i] = label

\* the text after the label of the first line so labelled
ValueOf(c, label) ==
    LET L == FileLines(c)
        i == CHOOSE j \in DOMAIN L : LabelOf(L[j]) = label
    IN  Tail(L[i])

Restrict(f, D) == [x \in D |-> f[x]]

(***************************************************************************)
(* The serializers applied to every parameter set of a bounded family.     *)
(***************************************************************************)
Idle ==
    /\ written = <<>>
    /\ protocol = ""
    /\ frequency = None
    /\ raw_data = None
    /\ key = <<>>
    /\ data = <<>>
    /\ te = None
    /\ repeat = None
    /\ address = <<>>
    /\ command = <<>>
    /\ duty_cycle = None
    /\ output_file = <<>>
    /\ hex_chars = 0
    /\ notice = "none"
    /\ report = <<>>

locals == <<protocol, frequency, raw_data, key, data, te, repeat, address,
            command, duty_cycle, output_file, hex_chars, notice, report>>

SubghzRequired == {"frequency", "protocol", "output_file"}

SubghzOptional == {"preset", "raw_data", "bit_count", "key", "te", "data", "repeat"}

SubghzParameterSets ==
    { Restrict([protocol |-> p, frequency |-> 433920000,
                output_file |-> <<"out.sub">>,
                preset |-> <<"FuriHalSubGhzPresetOok650Async">>,
                raw_data |-> rd, bit_count |-> b, key |-> k, te |-> t,
                data |-> d, repeat |-> r],
               SubghzRequired \cup g) :
        g \in SUBSET SubghzOptional,
        p \in {"RAW", "raw", "Holtek", "Princeton"},
        rd \in {<<>>, <<500, -500, 1000>>},
        b \in {0, 24},
        k \in {<<>>, <<"A", "B", " ", "0", "1">>},
        t \in {0, 400},
        d \in {<<>>, <<"F", "F">>},
        r \in {-1, 0, 1, 2} }

IrOptional == {"raw_data", "frequency", "duty_cycle", "address", "command"}

IrParameterSets ==
    { Restrict([protocol |-> p, output_file |-> <<"out.ir">>,
                raw_data |-> rd, frequency |-> f, duty_cycle |-> dc,
                address |-> a, command |-> c],
               {"protocol", "output_file"} \cup g) :
        g \in SUBSET IrOptional,
        p \in {"RAW", "raw", "NEC", "RC5"},
        rd \in {<<>>, <<9000, -4500, 560>>},
        f \in {0, 38000, 40000},
        dc \in {<<"0", ".", "3", "3">>, <<"0", ".", "5">>},
        a \in {<<>>, <<"0", "4">>},
        c \in {<<>>, <<"0", "8">>} }

\* raw timing lists handed to the serializers: signed values, zero included
RawValues == {-4500, -1, 0, 7, 560}

RawSequences == UNION {[1..k -> RawValues] : k \in 0..MaxRawLen}

SubghzRawSets ==
    { [protocol |-> "RAW", frequency |-> 433920000,
       output_file |-> <<"out.sub">>, raw_data |-> rd] : rd \in RawSequences }

IrRawSets ==
    { [protocol |-> "RAW", output_file |-> <<"out.ir">>, raw_data |-> rd] :
        rd \in RawSequences }

InitSerial ==
    /\ \/ pc = "call_subghz" /\ kwargs \in SubghzParameterSets \cup SubghzRawSets
       \/ pc = "call_ir" /\ kwargs \in IrParameterSets \cup IrRawSets
    /\ handler = ""
    /\ typed = <<>>
    /\ Idle

CallCreateSubghzFile ==
    /\ pc = "call_subghz"
    /\ IF SubghzRaises(kwargs)
       THEN pc' = "raised" /\ written' = written
       ELSE pc' = "subghz_returned" /\ written' = Append(written, CreateSubghzFile(kwargs))
    /\ UNCHANGED <<handler, typed, kwargs, locals>>

CallCreateIrFile ==
    /\ pc = "call_ir"
    /\ IF IrRaises(kwargs)
       THEN pc' = "raised" /\ written' = written
       ELSE pc' = "ir_returned" /\ written' = Append(written, CreateIrFile(kwargs))
    /\ UNCHANGED <<handler, typed, kwargs, locals>>

NextSerial == CallCreateSubghzFile \/ CallCreateIrFile

SpecSerial == InitSerial /\ [][NextSerial]_vars

(***************************************************************************)
(* The key normalisation applied to every bounded string and width.        *)
(***************************************************************************)
KeyAlphabet == {"0", "a", "F", "x", " ", "\t", "-"}

BoundedStrings(S, n) == UNION {[1..k -> S] : k \in 0..n}

\* the worked inputs: ("ABCDEF", 2) and ("AB", 4)
WorkedInputs ==
    { [typed |-> <<"A", "B", "C", "D", "E", "F">>, bytes |-> 2],
      [typed |-> <<"A", "B">>, bytes |-> 4] }

InitHex ==
    /\ pc = "call_normalize"
    /\ handler = ""
    /\ kwargs = <<>>
    /\ \/ /\ hex_chars \in {2 * n : n \in 1..MaxBytes}
          /\ \E k \in BoundedStrings(KeyAlphabet, MaxKeyLen) : typed = [key |-> k]
       \/ \E w \in WorkedInputs : typed = [key |-> w.typed] /\ hex_chars = 2 * w.bytes
    /\ written = <<>>
    /\ protocol = ""
    /\ frequency = None
    /\ raw_data = None
    /\ key = <<>>
    /\ data = <<>>
    /\ te = None
    /\ repeat = None
    /\ address = <<>>
    /\ command = <<>>
    /\ duty_cycle = None
    /\ output_file = <<>>
    /\ notice = "none"
    /\ report = <<>>

CallNormalizeKey ==
    /\ pc = "call_normalize"
    /\ pc' = "normalized"
    /\ key' = NormalizeKey(typed.key, hex_chars).key
    /\ notice' = NormalizeKey(typed.key, hex_chars).notice
    /\ UNCHANGED <<report, handler, typed, kwargs, written, protocol, frequency,
                   raw_data, data, te, repeat, address, command, duty_cycle,
                   output_file, hex_chars>>

NextHex == CallNormalizeKey

SpecHex == InitHex /\ [][NextHex]_vars

(***************************************************************************)
(* Reading numbers and lists typed by the operator.                        *)
(***************************************************************************)
DigitSet == {Digits[i] : i \in DOMAIN Digits}

DigitValue(c) == (CHOOSE i \in DOMAIN Digits : Digits[i] = c) - 1

RECURSIVE NatOf(_)
NatOf(s) ==
    IF s = <<>> THEN 0
    ELSE 10 * NatOf(SubSeq(s, 1, Len(s) - 1)) + DigitValue(s[Len(s)])

\* whether int(s) succeeds: surrounding whitespace, an optional sign, digits
IsIntText(s) ==
    LET t == Strip(s)
        d == IF t # <<>> /\ t[1] \in {"+", "-"} THEN Tail(t) ELSE t
    IN  d # <<>> /\ \A i \in DOMAIN d : d[i] \in DigitSet

\* int(s) where it succeeds
IntOf(s) ==
    LET t == Strip(s)
    IN  IF t[1] = "-" THEN -NatOf(Tail(t))
        ELSE IF t[1] = "+" THEN NatOf(Tail(t))
        ELSE NatOf(t)

\* s.split(): the runs of non-whitespace characters
RECURSIVE SplitWs(_)
SplitWs(s) ==
    LET t == LStrip(s)
    IN  IF t = <<>> THEN <<>>
        ELSE IF \A i \in DOMAIN t : t[i] \notin Whitespace THEN <<t>>
        ELSE LET k == CHOOSE i \in DOMAIN t :
                          t[i] \in Whitespace /\ \A j \in 1..(i - 1) : t[j] \notin Whitespace
             IN  <<SubSeq(t, 1, k - 1)>> \o SplitWs(SubSeq(t, k + 1, Len(t)))

\* whether [int(x) for x in s.split()] succeeds, and its value
IsIntList(s) == \A i \in DOMAIN SplitWs(s) : IsIntText(SplitWs(s)[i])

IntList(s) == LET w == SplitWs(s) IN [i \in DOMAIN w |-> IntOf(w[i])]

\* Python truth of an optional integer and of an optional list
Truthy(opt) == opt # None /\ opt[1] # 0

NonEmpty(opt) == opt # None /\ opt[1] # <<>>

(***************************************************************************)
(* The pattern generators.  Each takes the texts typed at its prompts and  *)
(* returns the list it returns: [] when an int() raises ValueError.        *)
(***************************************************************************)
\* [x] * n for a list x; range(n) is empty for n <= 0
RECURSIVE Times(_, _)
Times(x, n) == IF n <= 0 THEN <<>> ELSE x \o Times(x, n - 1)

\* a // b for b > 0: Python rounds the quotient down
FloorDiv(a, b) == IF a >= 0 THEN a \div b ELSE -(((-a) + b - 1) \div b)

\* the one-character strings of `for bit in data`
RECURSIVE PerBit(_, _, _)
PerBit(bits, one, zero) ==
    IF bits = <<>> THEN <<>>
    ELSE (IF bits[1] = "1" THEN one ELSE IF bits[1] = "0" THEN zero ELSE <<>>)
         \o PerBit(Tail(bits), one, zero)

\* mutant of generate_simple_onoff: the OFF time first
generate_simple_onoff_OffFirst(on_text, off_text, repeats_text) ==
    IF ~IsIntText(on_text) \/ ~IsIntText(off_text) \/ ~IsIntText(repeats_text)
    THEN <<>>
    ELSE Times(<<-IntOf(off_text), IntOf(on_text)>>, IntOf(repeats_text))

\* generate_simple_onoff
generate_simple_onoff(on_text, off_text, repeats_text) ==
    IF ~IsIntText(on_text) \/ ~IsIntText(off_text) \/ ~IsIntText(repeats_text)
    THEN <<>>
    ELSE Times(<<IntOf(on_text), -IntOf(off_text)>>, IntOf(repeats_text))

\* lines 429 and 431: bit_time//2 and -bit_time//2, which is (-bit_time)//2
ManchesterPairs(bit_time) ==
    [one |-> <<FloorDiv(bit_time, 2), FloorDiv(-bit_time, 2)>>,
     zero |-> <<FloorDiv(-bit_time, 2), FloorDiv(bit_time, 2)>>]

\* generate_manchester
generate_manchester(bit_time_text, data_text) ==
    IF ~IsIntText(bit_time_text) THEN <<>>
    ELSE PerBit(Strip(data_text), ManchesterPairs(IntOf(bit_time_text)).one,
                ManchesterPairs(IntOf(bit_time_text)).zero)

\* mutant of PwmPairs: the two pulses exchanged
PwmPairs_Swapped(short_pulse, long_pulse, gap) ==
    [one |-> <<short_pulse, -gap>>, zero |-> <<long_pulse, -gap>>]

\* lines 449 and 451
PwmPairs(short_pulse, long_pulse, gap) ==
    [one |-> <<long_pulse, -gap>>, zero |-> <<short_pulse, -gap>>]

\* generate_pwm
generate_pwm(short_text, long_text, gap_text, data_text) ==
    IF ~IsIntText(short_text) \/ ~IsIntText(long_text) \/ ~IsIntText(gap_text)
    THEN <<>>
    ELSE LET pairs == PwmPairs(IntOf(short_text), IntOf(long_text), IntOf(gap_text))
         IN  PerBit(Strip(data_text), pairs.one, pairs.zero)

\* mutant of RepeatWithGap: a gap after every copy, the last included
RECURSIVE RepeatWithGap_AfterEach(_, _, _, _)
RepeatWithGap_AfterEach(base_pattern, repeats, gap, i) ==
    IF i >= repeats THEN <<>>
    ELSE base_pattern \o (IF gap > 0 THEN <<-gap>> ELSE <<>>)
         \o RepeatWithGap_AfterEach(base_pattern, repeats, gap, i + 1)

\* lines 468-472: the loop over i in range(repeats), from i on
RECURSIVE RepeatWithGap(_, _, _, _)
RepeatWithGap(base_pattern, repeats, gap, i) ==
    IF i >= repeats THEN <<>>
    ELSE base_pattern \o (IF gap > 0 /\ i < repeats - 1 THEN <<-gap>> ELSE <<>>)
         \o RepeatWithGap(base_pattern, repeats, gap, i + 1)

\* generate_custom_repeat
generate_custom_repeat(base_text, repeats_text, gap_text) ==
    IF ~IsIntList(Strip(base_text)) \/ ~IsIntText(repeats_text) \/ ~IsIntText(gap_text)
    THEN <<>>
    ELSE RepeatWithGap(IntList(Strip(base_text)), IntOf(repeats_text),
                       IntOf(gap_text), 0)

\* generate_rc5_like: bit_time is 889
generate_rc5_like(data_text) == PerBit(Strip(data_text), <<-889, 889>>, <<889, -889>>)

\* s.lstrip('0')
RECURSIVE DropLeadingZeros(_)
DropLeadingZeros(s) ==
    IF s # <<>> /\ s[1] = "0" THEN DropLeadingZeros(Tail(s)) ELSE s

\* int(c, 16) of one hex digit, either case
HexValue(c) == (CHOOSE i \in DOMAIN HexDigits : HexDigits[i] = UpperChar(c)) - 1

\* the four binary digits of one hex digit
HexBits(c) ==
    LET v == HexValue(c)
        b(k) == IF (v \div k) % 2 = 1 THEN "1" ELSE "0"
    IN  <<b(8), b(4), b(2), b(1)>>

RECURSIVE AllHexBits(_)
AllHexBits(s) == IF s = <<>> THEN <<>> ELSE HexBits(s[1]) \o AllHexBits(Tail(s))

\* the sign and the digits int(data, 16) reads: surrounding whitespace, an
\* optional sign, an optional 0x or 0X, then the digits
HexIntParts(s) ==
    LET t == Strip(s)
        negative == t # <<>> /\ t[1] = "-"
        u == IF t # <<>> /\ t[1] \in {"+", "-"} THEN Tail(t) ELSE t
        d == IF StartsWith(u, <<"0", "x">>) \/ StartsWith(u, <<"0", "X">>)
             THEN SubSeq(u, 3, Len(u)) ELSE u
    IN  [negative |-> negative, digits |-> d]

\* whether int(data, 16) succeeds
IsHexIntText(s) ==
    LET d == HexIntParts(s).digits
    IN  d # <<>> /\ \A i \in DOMAIN d : UpperChar(d[i]) \in {HexDigits[j] : j \in DOMAIN HexDigits}

\* bin(int(data, 16))[2:], built digit by digit (the value may pass 2^31):
\* the binary digits without leading zeros; bin() of a negative value is
\* '-0b...', whose [2:] is 'b...'
BinText(s) ==
    LET p == HexIntParts(s)
        bits == DropLeadingZeros(AllHexBits(p.digits))
    IN  IF bits = <<>> THEN <<"0">>
        ELSE IF p.negative THEN <<"b">> \o bits
        ELSE bits

\* mutant of NecBits: the spaces of the two bit values exchanged
RECURSIVE NecBits_Exchanged(_)
NecBits_Exchanged(binary) ==
    IF binary = <<>> THEN <<>>
    ELSE (IF binary[1] = "1" THEN <<560, -560>> ELSE <<560, -1690>>)
         \o NecBits_Exchanged(Tail(binary))

\* lines 512-516: every character that is not '1' counts as a zero
RECURSIVE NecBits(_)
NecBits(binary) ==
    IF binary = <<>> THEN <<>>
    ELSE (IF binary[1] = "1" THEN <<560, -1690>> ELSE <<560, -560>>)
         \o NecBits(Tail(binary))

\* generate_nec_like
generate_nec_like(data_text) ==
    LET stripped == Strip(data_text)
        hex_data == IF StartsWith(stripped, <<"0", "x">>)
                    THEN SubSeq(stripped, 3, Len(stripped)) ELSE stripped
    IN  IF ~IsHexIntText(hex_data) THEN <<>>
        ELSE <<9000, -4500>> \o NecBits(Zfill(BinText(hex_data), 32)) \o <<560>>

(***************************************************************************)
(* The analysis tools.                                                     *)
(***************************************************************************)
\* " ".join(map(str, timing))
TimingText(timing) == Join([i \in DOMAIN timing |-> Str(timing[i])], " ")

\* binary_to_timing, line 617: the encoding typed, "pwm" when left empty
EncodingOf(encoding_text) ==
    IF Lower(Strip(encoding_text)) = <<>> THEN <<"p", "w", "m">>
    ELSE Lower(Strip(encoding_text))

\* mutant of binary_to_timing: the long pulse as the space after a pulse
binary_to_timing_LongSpace(binary_text, short_pulse, long_pulse, encoding_text) ==
    IF EncodingOf(encoding_text) = <<"p", "w", "m">>
    THEN PerBit(Strip(binary_text), <<long_pulse, -long_pulse>>,
                <<short_pulse, -long_pulse>>)
    ELSE IF EncodingOf(encoding_text) = <<"m", "a", "n", "c", "h", "e", "s", "t", "e", "r">>
    THEN PerBit(Strip(binary_text), <<short_pulse, -short_pulse>>,
                <<-short_pulse, short_pulse>>)
    ELSE <<>>

\* binary_to_timing, lines 619-631: the list `timing`
binary_to_timing(binary_text, short_pulse, long_pulse, encoding_text) ==
    IF EncodingOf(encoding_text) = <<"p", "w", "m">>
    THEN PerBit(Strip(binary_text), <<long_pulse, -short_pulse>>,
                <<short_pulse, -short_pulse>>)
    ELSE IF EncodingOf(encoding_text) = <<"m", "a", "n", "c", "h", "e", "s", "t", "e", "r">>
    THEN PerBit(Strip(binary_text), <<short_pulse, -short_pulse>>,
                <<-short_pulse, short_pulse>>)
    ELSE <<>>

\* [x for x in timing if x > 0] and [abs(x) for x in timing if x < 0]
positive_vals(timing) == SelectSeq(timing, LAMBDA x : x > 0)

\* mutant of negative_vals: the negative values as they are, without abs()
negative_vals_Signed(timing) == SelectSeq(timing, LAMBDA x : x < 0)

negative_vals(timing) ==
    LET neg == SelectSeq(timing, LAMBDA x : x < 0)
    IN  [i \in DOMAIN neg |-> -neg[i]]

\* min(), max() and sum() of a non-empty list
RECURSIVE Min(_)
Min(vals) ==
    IF Len(vals) = 1 THEN vals[1]
    ELSE IF vals[1] < Min(Tail(vals)) THEN vals[1] ELSE Min(Tail(vals))

RECURSIVE Max(_)
Max(vals) ==
    IF Len(vals) = 1 THEN vals[1]
    ELSE IF vals[1] > Max(Tail(vals)) THEN vals[1] ELSE Max(Tail(vals))

RECURSIVE Sum(_)
Sum(vals) == IF vals = <<>> THEN 0 ELSE vals[1] + Sum(Tail(vals))

\* lines 659 and 662: one statistics line ("us" stands for the micro sign)
StatsLine(label, vals) ==
    <<label>> \o Str(Min(vals)) \o <<"us, Max: ">> \o Str(Max(vals))
    \o <<"us, Avg: ">> \o Str(FloorDiv(Sum(vals), Len(vals))) \o <<"us">>

\* analyze_timing: the lines it prints
analyze_timing(timing_str) ==
    IF ~IsIntList(Strip(timing_str)) THEN << <<"Invalid timing data">> >>
    ELSE LET timing == IntList(Strip(timing_str))
         IN  << <<"Total values: ">> \o Str(Len(timing)),
                <<"Positive values: ">> \o Str(Len(positive_vals(timing))),
                <<"Negative values: ">> \o Str(Len(negative_vals(timing))) >>
             \o (IF positive_vals(timing) # <<>>
                 THEN <<StatsLine("ON times - Min: ", positive_vals(timing))>>
                 ELSE <<>>)
             \o (IF negative_vals(timing) # <<>>
                 THEN <<StatsLine("OFF times - Min: ", negative_vals(timing))>>
                 ELSE <<>>)

(***************************************************************************)
(* What the operator may type at each prompt.                              *)
(***************************************************************************)
MenuChoices == {"1", "2", "3", "4", "5", "6", "9"}

Quit == <<"q">>

ProtocolChoices == {Str(i) : i \in 0..12} \cup {Quit, <<"Q">>, <<"?">>}

FrequencyChoices == {Str(i) : i \in 0..6} \cup {Quit, <<"?">>}

CustomFrequencyInputs ==
    {<<"q">>,
     <<"0">>,
     <<"4", "3", "3", "9", "2", "0", "0", "0", "0">>,
     <<"4", "3", "3", "M", "H", "z">>,
     <<"1", "0", "0">>,
     <<"x">>}

KeyInputs ==
    {<<>>,
     <<"r", "a", "n", "d", "o", "m">>,
     <<"A", "B">>,
     <<"0", "x", "a", "b">>,
     <<"0", "X", "A", "B">>,
     <<"1", "2", "3", "4", "5", "6", "7">>,
     <<"G", "G">>,
     <<"5", "2", "A", "A", "A", "A", "B", "B", "C", "C", "D", "D", "E", "E", "F", "F">>}

DataInputs ==
    {<<>>,
     <<"0", "x", "0", "1">>,
     <<"a", "b", "c">>}

TEInputs ==
    {<<>>,
     <<"0">>,
     <<"3", "5", "0">>,
     <<"x">>}

RepeatInputs ==
    {<<>>,
     <<"1">>,
     <<"3">>,
     <<"0">>,
     <<"x">>}

FilenameInputs == {<<>>, <<"my_signal">>}

MethodChoices == {"1", "2", "3", "4", "9"}

ManualInputs ==
    {<<"q">>,
     <<"h", "e", "l", "p">>,
     <<"5", "0", "0", " ", "-", "5", "0", "0", " ", "1", "0", "0", "0", " ", "-", "5", "0", "0">>,
     <<"1", " ", "2", " ", "3">>,
     <<"5", " ", "x", " ", "7", " ", "8">>}

\* what a file named at the load prompt may hold; None: no such file
FilesOnDisk ==
    {None} \cup { <<c>> : c \in
    {<<>>,
      <<"1", "0", "0", " ", "-", "1", "0", "0">>,
      <<"9", "0", "0", "0", " ", "-", "4", "5", "0", "0", " ", "5", "6", "0", " ", "-", "5", "6", "0", " ", "5", "6", "0">>,
      <<"a", "b", "c">>} }

PatternChoices == {Str(i) : i \in 0..5} \cup {<<"?">>}

NotANumber == <<"x">>

OnTimeInputs == {Str(n) : n \in {-5, 0, 1, 500}} \cup {NotANumber}

RepeatsInputs == {Str(n) : n \in -1..MaxRepeats} \cup {NotANumber}

BitTimeInputs == {Str(n) : n \in {-3, 0, 1, 4, 5, 889}} \cup {NotANumber}

BitAlphabet == {"0", "1", "a"}

BitInputs == BoundedStrings(BitAlphabet, MaxBits) \cup {<<" ", "1", "0", " ">>}

ShortPulseInputs == {Str(300), NotANumber}

LongPulseInputs == {Str(900), NotANumber}

GapInputs == {Str(n) : n \in {-4, 0, 300}} \cup {NotANumber}

BaseInputs ==
    {<<>>,
     <<"5">>,
     <<"1", "0", "0", " ", "-", "2", "0", "0">>,
     <<" ", "1", " ", "-", "2", " ", " ", "3", " ", "-", "4", " ">>,
     <<"1", " ", "x">>}

NecInputs ==
    {<<>>,
     <<"0">>,
     <<"f", "f">>,
     <<"0", "x", "1", "2", "3", "4", "5", "6", "7", "8">>,
     <<"1", "2", "3", "4", "5", "6", "7", "8">>,
     <<"0", "X", "1", "2", "3", "4", "5", "6", "7", "8">>,
     <<"F", "F", "F", "F", "F", "F", "F", "F">>,
     <<"8", "0", "0", "0", "0", "0", "0", "1">>,
     <<"1", "0", "0", "0", "0", "0", "0", "0", "0">>,
     <<"0", "x", "1", "F", "F", "F", "F", "F", "F", "F", "F", "F">>,
     <<"-", "1">>,
     <<"-", "0", "x", "A">>,
     <<"0", "x", "-", "5">>,
     <<"x", "y", "z">>,
     <<"1", "2", "G">>}

ToolChoices == {"1", "2", "3", "4", "9"}

BinaryShortInputs == {Str(n) : n \in {-2, 0, 5, 300}} \cup {NotANumber}

BinaryLongInputs == {Str(n) : n \in {300, 900}} \cup {NotANumber}

EncodingInputs ==
    {<<>>,
     <<"p", "w", "m">>,
     <<" ", "P", "W", "M">>,
     <<"m", "a", "n", "c", "h", "e", "s", "t", "e", "r">>,
     <<"n", "r", "z">>}

TimingValues == {-7, -2, 0, 3, 10}

TimingInputs ==
    {TimingText(q) : q \in BoundedStrings(TimingValues, MaxTimings)}
    \cup {<<"5", "0", "0", " ", "-", "5", "0", "0", " ", "1", "0", "0", "0", " ", "-", "5", "0", "0">>,
          <<" ", "1", "2", " ", " ", "-", "7", " ">>,
          <<"1", " ", "x">>}

IrFrequencyInputs ==
    {<<>>,
     <<"3", "8", "0", "0", "0">>,
     <<"4", "0", "0", "0", "0">>,
     <<"x">>}

DutyCycleInputs == {<<>>, <<"0", ".", "5">>, <<"1">>, <<".", "2", "5", "0">>, <<"?">>}

IrCodeInputs ==
    {<<>>,
     <<"0", "4">>,
     <<"0", "x", "1", "f">>}

(***************************************************************************)
(* The main menu and the wizards.                                          *)
(***************************************************************************)
Init ==
    /\ pc = "main_menu"
    /\ handler = ""
    /\ typed = <<>>
    /\ kwargs = <<>>
    /\ Idle

\* a handler returns, or raises into main_menu's `except Exception`
ReturnToMenu == pc' = "main_menu"

Reset ==
    /\ typed' = <<>>
    /\ kwargs' = <<>>
    /\ written' = <<>>
    /\ protocol' = ""
    /\ frequency' = None
    /\ raw_data' = None
    /\ key' = <<>>
    /\ data' = <<>>
    /\ te' = None
    /\ repeat' = None
    /\ address' = <<>>
    /\ command' = <<>>
    /\ duty_cycle' = None
    /\ output_file' = <<>>
    /\ hex_chars' = 0
    /\ notice' = "none"
    /\ report' = <<>>

Type(prompt, text) == typed' = (prompt :> text) @@ typed

\* main_menu, choices 1 and 2: a wizard starts at its protocol prompt
StartWizard ==
    /\ pc = "main_menu"
    /\ \E choice \in MenuChoices :
          /\ choice \in {"1", "2"}
          /\ handler' = (IF choice = "1" THEN "subghz_wizard" ELSE "ir_wizard")
    /\ pc' = "select_protocol"
    /\ Reset

\* main_menu, choice 6 (exit); 5 and unknown choices print and change nothing
ExitMenu ==
    /\ pc = "main_menu"
    /\ \E choice \in MenuChoices :
          /\ choice \notin {"1", "2", "3", "4"}
          /\ pc' = (IF choice = "6" THEN "exited" ELSE pc)
    /\ UNCHANGED <<handler, typed, kwargs, written, locals>>

\* select_protocol and the wizard's `if not protocol: return`
SelectProtocol ==
    /\ pc = "select_protocol"
    /\ \E choice \in ProtocolChoices :
          LET list == IF handler = "subghz_wizard" THEN subghz_list ELSE ir_list
              c == Strip(choice)
              idx == IntOf(c) - 1
          IN  /\ Type("protocol", choice)
              /\ IF Lower(c) = Quit \/ ~IsIntText(c)
                 THEN protocol' = "" /\ ReturnToMenu
                 ELSE IF 0 <= idx /\ idx < Len(list)
                 THEN /\ protocol' = list[idx + 1]
                      /\ pc' = (IF handler = "subghz_wizard" THEN "select_frequency"
                                ELSE IF list[idx + 1] = "RAW" THEN "create_raw_data"
                                ELSE "get_ir_codes")
                 ELSE protocol' = protocol /\ pc' = pc
    /\ UNCHANGED <<report, handler, kwargs, written, frequency, raw_data, key, data, te,
                   repeat, address, command, duty_cycle, output_file,
                   hex_chars, notice>>

\* where subghz_wizard goes once select_frequency has returned f
AfterFrequency(f) ==
    /\ frequency' = f
    /\ pc' = (IF ~Truthy(f) THEN "main_menu"
              ELSE IF protocol = "RAW" THEN "create_raw_data"
              ELSE "get_protocol_data")

\* select_frequency, up to its call of get_custom_frequency
SelectFrequency ==
    /\ pc = "select_frequency"
    /\ \E choice \in FrequencyChoices :
          LET c == Strip(choice)
              idx == IntOf(c) - 1
          IN  /\ Type("frequency", choice)
              /\ IF Lower(c) = Quit \/ ~IsIntText(c)
                 THEN AfterFrequency(None)
                 ELSE IF 0 <= idx /\ idx < Len(common_frequencies)
                 THEN AfterFrequency(<<common_frequencies[idx + 1]>>)
                 ELSE IF idx = Len(common_frequencies)
                 THEN frequency' = frequency /\ pc' = "get_custom_frequency"
                 ELSE frequency' = frequency /\ pc' = pc
    /\ UNCHANGED <<report, handler, kwargs, written, protocol, raw_data, key, data, te,
                   repeat, address, command, duty_cycle, output_file,
                   hex_chars, notice>>

valid_ranges == << <<300000000, 348000000>>, <<387000000, 464000000>>,
                   <<779000000, 928000000>> >>

InRange(f) ==
    \E i \in DOMAIN valid_ranges : valid_ranges[i][1] <= f /\ f <= valid_ranges[i][2]

EndsWith(s, suffix) ==
    Len(s) >= Len(suffix) /\ SubSeq(s, Len(s) - Len(suffix) + 1, Len(s)) = suffix

DropLast(s, n) == SubSeq(s, 1, Len(s) - n)

\* lines 275-281; the mantissa of a MHz or kHz entry is typed without a fraction
CustomFrequencyText(text) == Remove(Remove(Strip(text), <<",">>), <<" ">>)

CustomFrequencyParses(text) ==
    LET f == CustomFrequencyText(text)
    IN  IF EndsWith(Lower(f), <<"m", "h", "z">>) \/ EndsWith(Lower(f), <<"k", "h", "z">>)
        THEN IsIntText(DropLast(f, 3))
        ELSE IsIntText(f)

CustomFrequencyValue(text) ==
    LET f == CustomFrequencyText(text)
    IN  IF EndsWith(Lower(f), <<"m", "h", "z">>) THEN IntOf(DropLast(f, 3)) * 1000000
        ELSE IF EndsWith(Lower(f), <<"k", "h", "z">>) THEN IntOf(DropLast(f, 3)) * 1000
        ELSE IntOf(f)

\* get_custom_frequency: one round of its loop
GetCustomFrequency ==
    /\ pc = "get_custom_frequency"
    /\ \E text \in CustomFrequencyInputs, confirm \in {"y", "n"} :
          /\ Type("custom_frequency", text)
          /\ IF Lower(Strip(text)) = Quit
             THEN AfterFrequency(None)
             ELSE IF ~CustomFrequencyParses(text)
             THEN frequency' = frequency /\ pc' = pc
             ELSE IF ~InRange(CustomFrequencyValue(text)) /\ confirm # "y"
             THEN frequency' = frequency /\ pc' = pc
             ELSE AfterFrequency(<<CustomFrequencyValue(text)>>)
    /\ UNCHANGED <<report, handler, kwargs, written, protocol, raw_data, key, data, te,
                   repeat, address, command, duty_cycle, output_file,
                   hex_chars, notice>>

\* mutant of AfterRawData: the wizard tests `raw_data is None`, so that an
\* empty list goes on to the serializer
AfterRawData_EmptyGoesOn(r) ==
    /\ raw_data' = r
    /\ pc' = (IF r = None THEN "main_menu"
              ELSE IF handler = "subghz_wizard" THEN "get_output_filename"
              ELSE "get_ir_frequency")

\* where a wizard goes once create_raw_*_data has returned r
AfterRawData(r) ==
    /\ raw_data' = r
    /\ pc' = (IF ~NonEmpty(r) THEN "main_menu"
              ELSE IF handler = "subghz_wizard" THEN "get_output_filename"
              ELSE "get_ir_frequency")

\* create_raw_subghz_data / create_raw_ir_data: the choice of a method
CreateRawData ==
    /\ pc = "create_raw_data"
    /\ \E choice \in MethodChoices :
          /\ Type("method", <<choice>>)
          /\ IF choice = "1" THEN raw_data' = raw_data /\ pc' = "manual_raw_entry"
             ELSE IF choice = "2" THEN raw_data' = raw_data /\ pc' = "pattern_generator"
             ELSE IF choice = "3" THEN raw_data' = raw_data /\ pc' = "load_raw_from_file"
             ELSE IF choice = "4" /\ handler = "ir_wizard"
             THEN raw_data' = raw_data /\ pc' = "common_ir_patterns"
             ELSE AfterRawData(None)
    /\ UNCHANGED <<report, handler, kwargs, written, protocol, frequency, key, data, te,
                   repeat, address, command, duty_cycle, output_file,
                   hex_chars, notice>>

\* manual_raw_entry: one round of its loop
ManualRawEntry ==
    /\ pc = "manual_raw_entry"
    /\ \E text \in ManualInputs, confirm \in {"y", "n"} :
          LET s == Strip(text)
          IN  /\ Type("timing", text)
              /\ IF Lower(s) = Quit THEN AfterRawData(None)
                 ELSE IF Lower(s) = <<"h", "e", "l", "p">> THEN raw_data' = raw_data /\ pc' = pc
                 ELSE IF ~IsIntList(s) THEN raw_data' = raw_data /\ pc' = pc
                 ELSE IF Len(IntList(s)) < 4 THEN raw_data' = raw_data /\ pc' = pc
                 ELSE IF confirm = "y" THEN AfterRawData(<<IntList(s)>>)
                 ELSE raw_data' = raw_data /\ pc' = pc
    /\ UNCHANGED <<report, handler, kwargs, written, protocol, frequency, key, data, te,
                   repeat, address, command, duty_cycle, output_file,
                   hex_chars, notice>>

\* load_raw_from_file
LoadRawFromFile ==
    /\ pc = "load_raw_from_file"
    /\ \E file \in FilesOnDisk :
          /\ Type("filename", <<"timing.txt">>)
          /\ IF file = None THEN AfterRawData(None)
             ELSE IF ~IsIntList(Strip(file[1])) THEN AfterRawData(None)
             ELSE AfterRawData(<<IntList(Strip(file[1]))>>)
    /\ UNCHANGED <<report, handler, kwargs, written, protocol, frequency, key, data, te,
                   repeat, address, command, duty_cycle, output_file,
                   hex_chars, notice>>

common_patterns ==
    << <<9000, -4500, 560, -1690, 560, -560, 560, -1690, 560>>,
       <<9000, -4500, 560, -560, 560, -1690, 560, -560, 560>>,
       <<9000, -4500, 560, -1690, 560, -1690, 560, -560, 560>>,
       <<9000, -4500, 560, -560, 560, -560, 560, -1690, 560>>,
       <<9000, -4500, 560, -1690, 560, -560, 560, -1690, 560>> >>

\* common_ir_patterns
CommonIrPatterns ==
    /\ pc = "common_ir_patterns"
    /\ \E choice \in FrequencyChoices :
          LET c == Strip(choice)
              idx == IntOf(c) - 1
          IN  /\ Type("pattern", choice)
              /\ IF IsIntText(c) /\ 0 <= idx /\ idx < Len(common_patterns)
                 THEN AfterRawData(<<common_patterns[idx + 1]>>)
                 ELSE AfterRawData(None)
    /\ UNCHANGED <<report, handler, kwargs, written, protocol, frequency, key, data, te,
                   repeat, address, command, duty_cycle, output_file,
                   hex_chars, notice>>

\* pattern_generator_subghz, up to the call of the generator chosen
PatternGeneratorSubghz ==
    /\ pc = "pattern_generator"
    /\ handler = "subghz_wizard"
    /\ \E text \in PatternChoices :
          LET pattern_list == <<"generate_simple_onoff", "generate_manchester",
                                "generate_pwm", "generate_custom_repeat">>
              choice == IntOf(text) - 1
          IN  /\ Type("pattern", text)
              /\ IF IsIntText(text) /\ 0 <= choice /\ choice < Len(pattern_list)
                 THEN raw_data' = raw_data /\ pc' = pattern_list[choice + 1]
                 ELSE AfterRawData(None)
    /\ UNCHANGED <<report, handler, kwargs, written, protocol, frequency, key, data, te,
                   repeat, address, command, duty_cycle, output_file,
                   hex_chars, notice>>

\* pattern_generator_ir, up to the call of the generator chosen
PatternGeneratorIr ==
    /\ pc = "pattern_generator"
    /\ handler = "ir_wizard"
    /\ \E text \in PatternChoices :
          LET choice == Strip(text)
          IN  /\ Type("pattern", text)
              /\ IF choice = <<"1">> THEN raw_data' = raw_data /\ pc' = "generate_nec_like"
                 ELSE IF choice = <<"2">> THEN raw_data' = raw_data /\ pc' = "generate_rc5_like"
                 ELSE IF choice = <<"3">>
                 THEN raw_data' = raw_data /\ pc' = "generate_simple_onoff"
                 ELSE AfterRawData(None)
    /\ UNCHANGED <<report, handler, kwargs, written, protocol, frequency, key, data, te,
                   repeat, address, command, duty_cycle, output_file,
                   hex_chars, notice>>

\* generate_simple_onoff; a prompt is reached only if the ones before it parsed
GenerateSimpleOnOff ==
    /\ pc = "generate_simple_onoff"
    /\ \E on \in OnTimeInputs, off \in OnTimeInputs, n \in RepeatsInputs :
          /\ typed' = (IF ~IsIntText(on) THEN [on_time |-> on]
                       ELSE IF ~IsIntText(off) THEN [on_time |-> on, off_time |-> off]
                       ELSE [on_time |-> on, off_time |-> off, onoff_repeats |-> n])
                      @@ typed
          /\ AfterRawData(<<generate_simple_onoff(on, off, n)>>)
    /\ UNCHANGED <<report, handler, kwargs, written, protocol, frequency, key, data, te,
                   repeat, address, command, duty_cycle, output_file,
                   hex_chars, notice>>

\* generate_manchester
GenerateManchester ==
    /\ pc = "generate_manchester"
    /\ \E t \in BitTimeInputs, bits \in BitInputs :
          /\ typed' = (IF ~IsIntText(t) THEN [bit_time |-> t]
                       ELSE [bit_time |-> t, manchester_data |-> bits]) @@ typed
          /\ AfterRawData(<<generate_manchester(t, bits)>>)
    /\ UNCHANGED <<report, handler, kwargs, written, protocol, frequency, key, data, te,
                   repeat, address, command, duty_cycle, output_file,
                   hex_chars, notice>>

\* generate_pwm
GeneratePwm ==
    /\ pc = "generate_pwm"
    /\ \E short \in ShortPulseInputs, long \in LongPulseInputs, g \in GapInputs,
          bits \in BitInputs :
          /\ typed' = (IF ~IsIntText(short) THEN [short_pulse |-> short]
                       ELSE IF ~IsIntText(long)
                       THEN [short_pulse |-> short, long_pulse |-> long]
                       ELSE IF ~IsIntText(g)
                       THEN [short_pulse |-> short, long_pulse |-> long, gap |-> g]
                       ELSE [short_pulse |-> short, long_pulse |-> long, gap |-> g,
                             pwm_data |-> bits]) @@ typed
          /\ AfterRawData(<<generate_pwm(short, long, g, bits)>>)
    /\ UNCHANGED <<report, handler, kwargs, written, protocol, frequency, key, data, te,
                   repeat, address, command, duty_cycle, output_file,
                   hex_chars, notice>>

\* generate_custom_repeat
GenerateCustomRepeat ==
    /\ pc = "generate_custom_repeat"
    /\ \E base \in BaseInputs, n \in RepeatsInputs, g \in GapInputs :
          /\ typed' = (IF ~IsIntList(Strip(base)) THEN [base_str |-> base]
                       ELSE IF ~IsIntText(n)
                       THEN [base_str |-> base, custom_repeats |-> n]
                       ELSE [base_str |-> base, custom_repeats |-> n, custom_gap |-> g])
                      @@ typed
          /\ AfterRawData(<<generate_custom_repeat(base, n, g)>>)
    /\ UNCHANGED <<report, handler, kwargs, written, protocol, frequency, key, data, te,
                   repeat, address, command, duty_cycle, output_file,
                   hex_chars, notice>>

\* generate_nec_like
GenerateNecLike ==
    /\ pc = "generate_nec_like"
    /\ \E text \in NecInputs :
          /\ Type("nec_data", text)
          /\ AfterRawData(<<generate_nec_like(text)>>)
    /\ UNCHANGED <<report, handler, kwargs, written, protocol, frequency, key, data, te,
                   repeat, address, command, duty_cycle, output_file,
                   hex_chars, notice>>

\* generate_rc5_like
GenerateRc5Like ==
    /\ pc = "generate_rc5_like"
    /\ \E bits \in BitInputs :
          /\ Type("rc5_data", bits)
          /\ AfterRawData(<<generate_rc5_like(bits)>>)
    /\ UNCHANGED <<report, handler, kwargs, written, protocol, frequency, key, data, te,
                   repeat, address, command, duty_cycle, output_file,
                   hex_chars, notice>>

\* main_menu, choice 3: analysis_tools starts at its tool prompt
StartAnalysisTools ==
    /\ pc = "main_menu"
    /\ \E choice \in MenuChoices : choice = "3"
    /\ handler' = "analysis_tools"
    /\ pc' = "analysis_tools"
    /\ Reset

\* analysis_tools; the results calculate_parameters (3) and hex_to_binary (4)
\* print are not held in the state
AnalysisTools ==
    /\ pc = "analysis_tools"
    /\ \E choice \in ToolChoices :
          /\ Type("tool", <<choice>>)
          /\ pc' = (IF choice = "1" THEN "binary_to_timing"
                    ELSE IF choice = "2" THEN "analyze_timing"
                    ELSE "main_menu")
    /\ UNCHANGED <<handler, kwargs, written, locals>>

\* binary_to_timing; the int() calls are outside any try, a ValueError ends
\* the handler in main_menu's `except Exception`
BinaryToTiming ==
    /\ pc = "binary_to_timing"
    /\ \E binary \in BitInputs, short \in BinaryShortInputs, long \in BinaryLongInputs,
          encoding \in EncodingInputs, save \in {"y", "n"},
          name \in {<<>>, <<"timing.txt">>} :
          IF ~IsIntText(short)
          THEN /\ typed' = [binary |-> binary, short_pulse |-> short] @@ typed
               /\ UNCHANGED <<report, written>>
          ELSE IF ~IsIntText(long)
          THEN /\ typed' = [binary |-> binary, short_pulse |-> short,
                            long_pulse |-> long] @@ typed
               /\ UNCHANGED <<report, written>>
          ELSE LET timing == binary_to_timing(binary, IntOf(short), IntOf(long), encoding)
                   filename == IF Strip(name) # <<>> THEN Strip(name)
                               ELSE <<"timing_", "%s", ".txt">>
               IN  /\ typed' = (IF save = "y"
                                THEN [binary |-> binary, short_pulse |-> short,
                                      long_pulse |-> long, encoding |-> encoding,
                                      save |-> <<save>>, filename |-> name]
                                ELSE [binary |-> binary, short_pulse |-> short,
                                      long_pulse |-> long, encoding |-> encoding,
                                      save |-> <<save>>]) @@ typed
                   /\ report' = <<TimingText(timing)>>
                   /\ written' = (IF save = "y"
                                  THEN Append(written, [filename |-> filename,
                                                        content |-> TimingText(timing)])
                                  ELSE written)
    /\ ReturnToMenu
    /\ UNCHANGED <<handler, kwargs, protocol, frequency, raw_data, key, data, te,
                   repeat, address, command, duty_cycle, output_file,
                   hex_chars, notice>>

\* analyze_timing
AnalyzeTiming ==
    /\ pc = "analyze_timing"
    /\ \E text \in TimingInputs :
          /\ Type("timing_str", text)
          /\ report' = analyze_timing(text)
    /\ ReturnToMenu
    /\ UNCHANGED <<handler, kwargs, written, protocol, frequency, raw_data, key,
                   data, te, repeat, address, command, duty_cycle, output_file,
                   hex_chars, notice>>

\* get_protocol_data: the key, data and timing-element prompts
GetProtocolData ==
    /\ pc = "get_protocol_data"
    /\ \E k \in KeyInputs, d \in DataInputs, t \in TEInputs, d1, d2 \in RandomDraws :
          LET protocol_info == subghz_protocols(protocol)
              hc == protocol_info.key_bytes * 2
              read == ReadKey(k, hc, d1, d2)
              needs_te == Get(protocol_info, "needs_te", FALSE)
              default_te == Get(protocol_info, "default_te", 400)
              te_input == Strip(t)
          IN  /\ hex_chars' = hc
              /\ IF needs_te /\ te_input # <<>> /\ ~IsIntText(te_input)
                 THEN /\ typed' = [key |-> k, data |-> d, te |-> t] @@ typed
                      /\ UNCHANGED <<key, data, te, notice>>
                      /\ ReturnToMenu
                 ELSE /\ typed' = (IF needs_te THEN [key |-> k, data |-> d, te |-> t]
                                   ELSE [key |-> k, data |-> d]) @@ typed
                      /\ key' = read.key
                      /\ notice' = read.notice
                      /\ data' = NormalizeData(Strip(d))
                      /\ te' = (IF ~needs_te THEN None
                                ELSE IF te_input # <<>> THEN <<IntOf(te_input)>>
                                ELSE <<default_te>>)
                      /\ pc' = "get_repeat_count"
    /\ UNCHANGED <<report, handler, kwargs, written, protocol, frequency, raw_data,
                   repeat, address, command, duty_cycle, output_file>>

\* get_repeat_count
GetRepeatCount ==
    /\ pc = "get_repeat_count"
    /\ \E text \in RepeatInputs :
          LET repeat_str == Strip(text)
          IN  /\ Type("repeat", text)
              /\ IF repeat_str = <<>> THEN repeat' = <<1>> /\ pc' = "get_output_filename"
                 ELSE IF IsIntText(repeat_str)
                 THEN repeat' = <<IntOf(repeat_str)>> /\ pc' = "get_output_filename"
                 ELSE repeat' = repeat /\ ReturnToMenu
    /\ UNCHANGED <<report, handler, kwargs, written, protocol, frequency, raw_data, key,
                   data, te, address, command, duty_cycle, output_file,
                   hex_chars, notice>>

\* get_output_filename
Filename(text, extension) ==
    IF Strip(text) # <<>> THEN Strip(text)
    ELSE <<"flipper_", "%Y%m%d_%H%M%S", ".", extension>>

\* subghz_wizard, lines 135-140: the arguments of the RAW call
SubghzRawParams(filename) ==
    [protocol |-> "RAW", frequency |-> frequency[1], raw_data |-> raw_data[1],
     output_file |-> filename]

\* subghz_wizard, lines 149-165: params, with te and data added when present
SubghzParams(filename) ==
    LET protocol_info == subghz_protocols(protocol)
        base == [protocol |-> protocol, frequency |-> frequency[1], key |-> key,
                 repeat |-> repeat[1], output_file |-> filename,
                 bit_count |-> protocol_info.bits]
        with_te == IF Get(protocol_info, "needs_te", FALSE) /\ Truthy(te)
                   THEN ("te" :> te[1]) @@ base
                   ELSE base
    IN  IF data # <<>> THEN ("data" :> data) @@ with_te ELSE with_te

\* ir_wizard, lines 187-193 and 201-206: the arguments of the call
IrParams(filename) ==
    IF protocol = "RAW"
    THEN [protocol |-> "RAW", raw_data |-> raw_data[1], frequency |-> frequency[1],
          duty_cycle |-> duty_cycle[1], output_file |-> filename]
    ELSE [protocol |-> protocol, address |-> address, command |-> command,
          output_file |-> filename]

\* get_output_filename and the serializer call that ends the wizard
GetOutputFilename ==
    /\ pc = "get_output_filename"
    /\ \E text \in FilenameInputs :
          LET extension == IF handler = "subghz_wizard" THEN "sub" ELSE "ir"
              filename == Filename(text, extension)
              params == IF handler = "ir_wizard" THEN IrParams(filename)
                        ELSE IF protocol = "RAW" THEN SubghzRawParams(filename)
                        ELSE SubghzParams(filename)
          IN  /\ Type("output_file", text)
              /\ output_file' = filename
              /\ kwargs' = params
              /\ written' = Append(written,
                                   IF handler = "ir_wizard" THEN CreateIrFile(params)
                                   ELSE CreateSubghzFile(params))
    /\ ReturnToMenu
    /\ UNCHANGED <<report, handler, protocol, frequency, raw_data, key, data, te, repeat,
                   address, command, duty_cycle, hex_chars, notice>>

DefaultPromptFrequency == 35715

\* get_ir_frequency
GetIrFrequency ==
    /\ pc = "get_ir_frequency"
    /\ \E text \in IrFrequencyInputs :
          LET freq_str == Strip(text)
          IN  /\ Type("ir_frequency", text)
              /\ IF freq_str = <<>>
                 THEN frequency' = <<DefaultPromptFrequency>> /\ pc' = "get_duty_cycle"
                 ELSE IF IsIntText(freq_str)
                 THEN frequency' = <<IntOf(freq_str)>> /\ pc' = "get_duty_cycle"
                 ELSE frequency' = frequency /\ ReturnToMenu
    /\ UNCHANGED <<report, handler, kwargs, written, protocol, raw_data, key, data, te,
                   repeat, address, command, duty_cycle, output_file,
                   hex_chars, notice>>

\* whether float(s) succeeds, for unsigned decimal text without an exponent
IsFloatText(s) ==
    /\ \A i \in DOMAIN s : s[i] \in DigitSet \cup {"."}
    /\ \E i \in DOMAIN s : s[i] \in DigitSet
    /\ Cardinality({i \in DOMAIN s : s[i] = "."}) <= 1

RECURSIVE DropTrailingZeros(_)
DropTrailingZeros(s) ==
    IF s # <<>> /\ s[Len(s)] = "0"
    THEN DropTrailingZeros(SubSeq(s, 1, Len(s) - 1))
    ELSE s

\* str(float(s)) for such text of a few digits: "1" is "1.0", ".250" is "0.25"
FloatStr(s) ==
    LET dot == IF \E i \in DOMAIN s : s[i] = "."
               THEN CHOOSE i \in DOMAIN s : s[i] = "."
               ELSE Len(s) + 1
        whole == DropLeadingZeros(SubSeq(s, 1, dot - 1))
        fraction == DropTrailingZeros(SubSeq(s, dot + 1, Len(s)))
    IN  (IF whole = <<>> THEN <<"0">> ELSE whole) \o <<".">>
        \o (IF fraction = <<>> THEN <<"0">> ELSE fraction)

\* get_duty_cycle
GetDutyCycle ==
    /\ pc = "get_duty_cycle"
    /\ \E text \in DutyCycleInputs :
          LET duty_str == Strip(text)
          IN  /\ Type("duty_cycle", text)
              /\ IF duty_str = <<>>
                 THEN duty_cycle' = <<DefaultDutyCycle>> /\ pc' = "get_output_filename"
                 ELSE IF IsFloatText(duty_str)
                 THEN duty_cycle' = <<FloatStr(duty_str)>> /\ pc' = "get_output_filename"
                 ELSE duty_cycle' = duty_cycle /\ ReturnToMenu
    /\ UNCHANGED <<report, handler, kwargs, written, protocol, frequency, raw_data, key,
                   data, te, repeat, address, command, output_file,
                   hex_chars, notice>>

\* get_ir_codes and the wizard's `if not address or not command: return`
GetIrCodes ==
    /\ pc = "get_ir_codes"
    /\ \E a \in IrCodeInputs, c \in IrCodeInputs :
          /\ typed' = [address |-> a, command |-> c] @@ typed
          /\ address' = Upper(Strip(a))
          /\ command' = Upper(Strip(c))
          /\ pc' = (IF Strip(a) = <<>> \/ Strip(c) = <<>> THEN "main_menu"
                    ELSE "get_output_filename")
    /\ UNCHANGED <<report, handler, kwargs, written, protocol, frequency, raw_data, key,
                   data, te, repeat, duty_cycle, output_file, hex_chars, notice>>

\* generate_samples: the five calls, in order
SampleCalls ==
    << [kind |-> "subghz",
        kw |-> [protocol |-> "Princeton", frequency |-> 433920000,
                key |-> <<"0", "0", " ", "0", "0", " ", "0", "0", " ", "0", "0", " ", "0", "0", " ", "9", "5", " ", "D", "5", " ", "D", "4">>,
                bit_count |-> 24, te |-> 400,
                output_file |-> <<"sample_princeton.sub">>]],
       [kind |-> "subghz",
        kw |-> [protocol |-> "Holtek", frequency |-> 418000000,
                key |-> <<"0", "0", " ", "0", "0", " ", "5", "2", " ", "A", "A", " ", "A", "A", " ", "B", "B", " ", "C", "C", " ", "D", "D", " ", "E", "E", " ", "F", "F">>,
                bit_count |-> 40,
                output_file |-> <<"sample_holtek.sub">>]],
       [kind |-> "subghz",
        kw |-> [protocol |-> "RAW", frequency |-> 315000000,
                raw_data |-> <<500, -500, 1000, -500, 500, -1000, 1000, -500>>,
                output_file |-> <<"sample_raw.sub">>]],
       [kind |-> "ir",
        kw |-> [protocol |-> "NEC", address |-> <<"0", "4">>,
                command |-> <<"0", "8">>, output_file |-> <<"sample_nec.ir">>]],
       [kind |-> "ir",
        kw |-> [protocol |-> "RAW",
                raw_data |-> <<9000, -4500, 560, -560, 560, -1690, 560, -560, 560>>,
                frequency |-> 38000, duty_cycle |-> <<"0", ".", "3", "3">>,
                output_file |-> <<"sample_ir_raw.ir">>]] >>

\* main_menu, choice 4: generate_samples
GenerateSamples ==
    /\ pc = "main_menu"
    /\ \E choice \in MenuChoices : choice = "4"
    /\ handler' = "generate_samples"
    /\ typed' = <<>>
    /\ kwargs' = SampleCalls[Len(SampleCalls)].kw
    /\ written' = [i \in DOMAIN SampleCalls |->
                       IF SampleCalls[i].kind = "subghz"
                       THEN CreateSubghzFile(SampleCalls[i].kw)
                       ELSE CreateIrFile(SampleCalls[i].kw)]
    /\ ReturnToMenu
    /\ protocol' = ""
    /\ frequency' = None
    /\ raw_data' = None
    /\ key' = <<>>
    /\ data' = <<>>
    /\ te' = None
    /\ repeat' = None
    /\ address' = <<>>
    /\ command' = <<>>
    /\ duty_cycle' = None
    /\ output_file' = <<>>
    /\ hex_chars' = 0
    /\ notice' = "none"
    /\ report' = <<>>

Next ==
    \/ StartWizard
    \/ ExitMenu
    \/ GenerateSamples
    \/ SelectProtocol
    \/ SelectFrequency
    \/ GetCustomFrequency
    \/ CreateRawData
    \/ ManualRawEntry
    \/ LoadRawFromFile
    \/ CommonIrPatterns
    \/ PatternGeneratorSubghz
    \/ PatternGeneratorIr
    \/ GenerateSimpleOnOff
    \/ GenerateManchester
    \/ GeneratePwm
    \/ GenerateCustomRepeat
    \/ GenerateNecLike
    \/ GenerateRc5Like
    \/ StartAnalysisTools
    \/ AnalysisTools
    \/ BinaryToTiming
    \/ AnalyzeTiming
    \/ GetProtocolData
    \/ GetRepeatCount
    \/ GetIrFrequency
    \/ GetDutyCycle
    \/ GetIrCodes
    \/ GetOutputFilename

Spec == Init /\ [][Next]_vars

(***************************************************************************)
(* Properties of the Sub-GHz serializer.                                   *)
(***************************************************************************)
SubghzReturned == pc = "subghz_returned"

SubContent == written[Len(written)].content

StructuredLabels == {"Bit: ", "Key: ", "TE: ", "Data: ", "Repeat: "}

SubghzOrder == <<"Filetype: ", "Version: ", "Frequency: ", "Preset: ",
                 "Protocol: ", "RAW_Data: ", "Bit: ", "Key: ", "TE: ",
                 "Data: ", "Repeat: ">>

Rank(label) == CHOOSE i \in DOMAIN SubghzOrder : SubghzOrder[i] = label

Supplied(k) == k \in DOMAIN kwargs

\* C1: the content produced by create_subghz_file has a RAW_Data line exactly
\* when protocol = "RAW", and then none of Bit, Key, TE, Data, Repeat, even
\* if those fields were supplied; with another protocol it has no RAW_Data
\* line; so a RAW_Data line and a structured line never occur together.
C1_RawExclusive ==
    SubghzReturned =>
        /\ HasLine(SubContent, "RAW_Data: ") <=> (kwargs.protocol = "RAW")
        /\ kwargs.protocol = "RAW" =>
               \A l \in StructuredLabels : ~HasLine(SubContent, l)
        /\ ~(HasLine(SubContent, "RAW_Data: ")
             /\ \E l \in StructuredLabels : HasLine(SubContent, l))

\* C1 witness: a RAW record written although key, TE and repeat 2 were supplied
C1_Witness ==
    /\ SubghzReturned
    /\ kwargs.protocol = "RAW"
    /\ Supplied("key") /\ kwargs.key # <<>>
    /\ Supplied("te") /\ kwargs.te = 400
    /\ Supplied("repeat") /\ kwargs.repeat = 2
    /\ HasLine(SubContent, "RAW_Data: ")

\* C2: the lines of a Sub-GHz file follow the order Filetype, Version,
\* Frequency, Preset, Protocol, then RAW_Data or the present ones of Bit, Key,
\* TE, Data, Repeat in that relative order; the first five are always there;
\* Preset is FuriHalSubGhzPresetOok270Async when no preset is supplied; and
\* the content ends with exactly one newline after its last line.
C2_LineOrder ==
    SubghzReturned =>
        LET c == SubContent
            L == Labels(c)
        IN  /\ Len(L) >= 5
            /\ SubSeq(L, 1, 5) = SubSeq(SubghzOrder, 1, 5)
            /\ \A i \in DOMAIN L : \E j \in DOMAIN SubghzOrder : SubghzOrder[j] = L[i]
            /\ \A i, j \in DOMAIN L : i < j => Rank(L[i]) < Rank(L[j])
            /\ ~Supplied("preset") =>
                   FileLines(c)[4] = <<"Preset: ", "FuriHalSubGhzPresetOok270Async">>
            /\ Supplied("preset") => FileLines(c)[4] = <<"Preset: ">> \o kwargs.preset
            /\ c[Len(c)] = NL
            /\ c[Len(c) - 1] # NL
            /\ Len(SplitLines(c)) = Len(L) + 1

\* C2 witness: a structured record with all five optional lines and no preset
C2_Witness ==
    /\ SubghzReturned
    /\ ~Supplied("preset")
    /\ Labels(SubContent) = SubSeq(SubghzOrder, 1, 5) \o SubSeq(SubghzOrder, 7, 11)

\* C5: for a non-RAW record, the Bit line is there exactly when a bit count is
\* present, Key exactly when a key is present, Data exactly when data is
\* present (present: supplied and not the empty value, which for a bit count
\* is 0), and Repeat exactly when the repeat count is supplied and greater
\* than 1; each line carries the value of its field.
C5_OptionalLines ==
    (SubghzReturned /\ kwargs.protocol # "RAW") =>
        LET c == SubContent
        IN  /\ HasLine(c, "Bit: ") <=> (Supplied("bit_count") /\ kwargs.bit_count # 0)
            /\ HasLine(c, "Bit: ") => ValueOf(c, "Bit: ") = Str(kwargs.bit_count)
            /\ HasLine(c, "Key: ") <=> (Supplied("key") /\ kwargs.key # <<>>)
            /\ HasLine(c, "Key: ") => ValueOf(c, "Key: ") = kwargs.key
            /\ HasLine(c, "Data: ") <=> (Supplied("data") /\ kwargs.data # <<>>)
            /\ HasLine(c, "Data: ") => ValueOf(c, "Data: ") = kwargs.data
            /\ HasLine(c, "Repeat: ") <=> (Supplied("repeat") /\ kwargs.repeat > 1)
            /\ HasLine(c, "Repeat: ") => ValueOf(c, "Repeat: ") = Str(kwargs.repeat)

\* C5 witness: a Holtek record with a key, a repeat count of 1 and no data
C5_Witness ==
    /\ SubghzReturned
    /\ kwargs.protocol = "Holtek"
    /\ Supplied("key") /\ kwargs.key # <<>>
    /\ Supplied("repeat") /\ kwargs.repeat = 1
    /\ ~Supplied("data")
    /\ HasLine(SubContent, "Key: ")
    /\ ~HasLine(SubContent, "Repeat: ")

(***************************************************************************)
(* Properties of the IR serializer.                                        *)
(***************************************************************************)
IrReturned == pc = "ir_returned"

IrContent == written[Len(written)].content

\* C6: after Filetype and Version, create_ir_file writes for protocol "RAW"
\* the lines name: Custom_RAW, type: raw, frequency, duty_cycle, data, in
\* that order and nothing else; for any other protocol the lines
\* name: Custom_<protocol>, type: parsed, protocol, address, command, in that
\* order and nothing else.
C6_IrBranches ==
    IrReturned =>
        LET c == IrContent
            L == FileLines(c)
        IN  /\ SubSeq(Labels(c), 1, 2) = <<"Filetype: ", "Version: ">>
            /\ IF kwargs.protocol = "RAW"
               THEN /\ Labels(c) = <<"Filetype: ", "Version: ", "name: Custom_",
                                     "type: ", "frequency: ", "duty_cycle: ", "data: ">>
                    /\ L[3] = <<"name: Custom_", "RAW">>
                    /\ L[4] = <<"type: ", "raw">>
               ELSE /\ Labels(c) = <<"Filetype: ", "Version: ", "name: Custom_",
                                     "type: ", "protocol: ", "address: ", "command: ">>
                    /\ L[3] = <<"name: Custom_", kwargs.protocol>>
                    /\ L[4] = <<"type: ", "parsed">>
                    /\ L[5] = <<"protocol: ", kwargs.protocol>>

\* C6 witness: a RAW record written although an address was supplied
C6_Witness ==
    /\ IrReturned
    /\ kwargs.protocol = "RAW"
    /\ Supplied("address") /\ kwargs.address # <<>>
    /\ HasLine(IrContent, "data: ")

(***************************************************************************)
(* Properties of the key normalisation.                                    *)
(***************************************************************************)
UpperHex == {HexDigits[i] : i \in DOMAIN HexDigits}

HexInput == UpperHex \cup {"a", "b", "c", "d", "e", "f"}

\* the digits of an input: what follows a leading 0x marker, if there is one
HexBody(s) == IF StartsWith(s, <<"0", "x">>) THEN SubSeq(s, 3, Len(s)) ELSE s

IsHexInput(s) == s # <<>> /\ \A i \in DOMAIN HexBody(s) : HexBody(s)[i] \in HexInput

Unspaced(s) == Remove(s, <<" ">>)

Normalized == pc = "normalized"

\* C8: for a non-empty input of hex digits (after a 0x marker or without one)
\* and a width of n bytes the result is n groups of two uppercase hex digits
\* joined by single spaces; an input of more than 2n digits keeps its first 2n
\* digits with a truncation notice, one of fewer is left-padded with '0' to 2n
\* digits with a padding notice; ("ABCDEF", 2) gives "AB CD" and ("AB", 4)
\* gives "00 00 00 AB".
C8_ExactWidth ==
    (Normalized /\ IsHexInput(typed.key)) =>
        LET n == hex_chars \div 2
            e == Upper(HexBody(typed.key))
            u == Unspaced(key)
        IN  /\ Len(key) = 3 * n - 1
            /\ \A i \in DOMAIN key :
                   IF i % 3 = 0 THEN key[i] = " " ELSE key[i] \in UpperHex
            /\ Len(e) > 2 * n =>
                   u = SubSeq(e, 1, 2 * n) /\ notice = "truncated"
            /\ Len(e) < 2 * n =>
                   u = Zeros(2 * n - Len(e)) \o e /\ notice = "padded"
            /\ Len(e) = 2 * n => u = e /\ notice = "none"
            /\ (typed.key = <<"A", "B", "C", "D", "E", "F">> /\ n = 2) =>
                   key = <<"A", "B", " ", "C", "D">>
            /\ (typed.key = <<"A", "B">> /\ n = 4) =>
                   key = <<"0", "0", " ", "0", "0", " ", "0", "0", " ", "A", "B">>

\* C8 witness: ("ABCDEF", 2) normalised with a truncation notice
C8_Witness ==
    /\ Normalized
    /\ typed.key = <<"A", "B", "C", "D", "E", "F">>
    /\ hex_chars = 4
    /\ notice = "truncated"

\* C9: normalising the space-stripped result of a normalisation again, with
\* the same width, gives the same result and neither truncates nor pads.
C9_Idempotent ==
    Normalized =>
        NormalizeKey(Unspaced(key), hex_chars) = [key |-> key, notice |-> "none"]

\* C9 witness: an input that was padded, holding the 0x marker and a space
C9_Witness ==
    /\ Normalized
    /\ notice = "padded"
    /\ typed.key = <<"0", "x", "a", " ", "F">>
    /\ key # <<>>

(***************************************************************************)
(* Properties of the files the wizards and generate_samples write.         *)
(***************************************************************************)
SubghzWizardWrote == handler = "subghz_wizard" /\ written # <<>>

IrWizardWrote == handler = "ir_wizard" /\ written # <<>>

WizardContent == written[1].content

\* C3: in a file written by the Sub-GHz wizard a TE line appears only if the
\* protocol is not RAW, the catalog requires a timing element for it and a TE
\* value was given; a protocol that does not require TE gets no TE line; and
\* for a protocol that requires it (Princeton) the TE line carries the value
\* the operator typed, or 400 when the prompt was left empty.
C3_TELine ==
    SubghzWizardWrote =>
        LET c == WizardContent
            needs_te == subghz_protocols(protocol).needs_te
        IN  /\ HasLine(c, "TE: ") => (protocol # "RAW" /\ needs_te /\ te # None)
            /\ ~needs_te => ~HasLine(c, "TE: ")
            /\ (protocol # "RAW" /\ needs_te) =>
                   /\ HasLine(c, "TE: ")
                   /\ ValueOf(c, "TE: ") =
                          (IF Strip(typed.te) = <<>> THEN <<"4", "0", "0">>
                           ELSE Str(IntOf(typed.te)))

\* C3, the part that stands: as C3_TELine, but a typed timing element of 0
\* yields no TE line.
C3_TELineUnlessZero ==
    SubghzWizardWrote =>
        LET c == WizardContent
            needs_te == subghz_protocols(protocol).needs_te
            given == IF Strip(typed.te) = <<>> THEN 400 ELSE IntOf(typed.te)
        IN  /\ HasLine(c, "TE: ") => (protocol # "RAW" /\ needs_te /\ te # None)
            /\ ~needs_te => ~HasLine(c, "TE: ")
            /\ (protocol # "RAW" /\ needs_te) =>
                   /\ HasLine(c, "TE: ") <=> given # 0
                   /\ HasLine(c, "TE: ") => ValueOf(c, "TE: ") = Str(given)

\* C3 at the serializer alone: a call of create_subghz_file for a protocol
\* whose catalog entry does not require TE (Holtek) writes no TE line whatever
\* te it is given.
C3_NoTEWithoutNeed ==
    (SubghzReturned /\ kwargs.protocol = "Holtek") =>
        (~Get(subghz_protocols("Holtek"), "needs_te", FALSE) => ~HasLine(SubContent, "TE: "))

HoltekSample == <<"sample_holtek.sub">>

HoltekKeyInput == <<"5", "2", "A", "A", "A", "A", "B", "B", "C", "C", "D", "D", "E", "E", "F", "F">>

\* C4 as stated: the Holtek sample file has exactly 6 lines, no RAW_Data line
\* and no TE line.
C4_HoltekSixLines ==
    \A i \in DOMAIN written :
        written[i].filename = HoltekSample =>
            /\ Len(FileLines(written[i].content)) = 6
            /\ ~HasLine(written[i].content, "RAW_Data: ")
            /\ ~HasLine(written[i].content, "TE: ")

\* C4 as amended: the Holtek sample file (protocol Holtek, frequency
\* 418000000, the key normalizeHex("52AAAABBCCDDEEFF", 10), bit count 40) has
\* exactly 7 lines, Filetype, Version, Frequency, Preset, Protocol, Bit, Key,
\* with no RAW_Data line and no TE line.
C4_HoltekSevenLines ==
    \A i \in DOMAIN written :
        written[i].filename = HoltekSample =>
            LET c == written[i].content
            IN  /\ Len(FileLines(c)) = 7
                /\ Labels(c) = <<"Filetype: ", "Version: ", "Frequency: ",
                                 "Preset: ", "Protocol: ", "Bit: ", "Key: ">>
                /\ ~HasLine(c, "RAW_Data: ")
                /\ ~HasLine(c, "TE: ")
                /\ ValueOf(c, "Protocol: ") = <<"Holtek">>
                /\ ValueOf(c, "Frequency: ") = Str(418000000)
                /\ ValueOf(c, "Bit: ") = <<"4", "0">>
                /\ ValueOf(c, "Key: ") = NormalizeKey(HoltekKeyInput, 20).key

\* C4 witness: generate_samples has run and written the Holtek sample
C4_Witness ==
    /\ handler = "generate_samples"
    /\ \E i \in DOMAIN written : written[i].filename = HoltekSample

\* C7: a raw IR file written by the IR wizard after the operator left the IR
\* frequency prompt empty carries the line frequency: 38000.
C7_DefaultIrFrequency ==
    (IrWizardWrote /\ protocol = "RAW" /\ Strip(typed.ir_frequency) = <<>>) =>
        /\ HasLine(WizardContent, "frequency: ")
        /\ ValueOf(WizardContent, "frequency: ") = <<"3", "8", "0", "0", "0">>

\* the typed key without a leading 0x or 0X marker and without whitespace
WithoutMarker(text) ==
    LET t == Strip(text)
        u == IF StartsWith(t, <<"0", "x">>) \/ StartsWith(t, <<"0", "X">>)
             THEN SubSeq(t, 3, Len(t)) ELSE t
    IN  Upper([i \in 1..Len(SelectSeq(u, LAMBDA ch : ch \notin Whitespace)) |->
                   SelectSeq(u, LAMBDA ch : ch \notin Whitespace)[i]])

IsRandomWord(text) == Lower(Strip(text)) = <<"r", "a", "n", "d", "o", "m">>

\* C10: get_protocol_data returns a key only if the typed key, without its
\* 0x/0X marker and whitespace and uppercased, holds hex digits alone (it
\* fails with InvalidHex otherwise); and every Key line written to a Sub-GHz
\* file holds only uppercase hex digits and single separating spaces.
C10_InvalidHexRejected ==
    /\ (pc = "get_repeat_count" /\ ~IsRandomWord(typed.key)) =>
           \A i \in DOMAIN WithoutMarker(typed.key) :
               WithoutMarker(typed.key)[i] \in UpperHex
    /\ \A i \in DOMAIN written :
           HasLine(written[i].content, "Key: ") =>
               LET k == ValueOf(written[i].content, "Key: ")
               IN  /\ \A j \in DOMAIN k : k[j] \in UpperHex \cup {" "}
                   /\ \A j \in 1..(Len(k) - 1) : ~(k[j] = " " /\ k[j + 1] = " ")
                   /\ k[1] # " " /\ k[Len(k)] # " "

(***************************************************************************)
(* Properties of the pattern generators.                                   *)
(***************************************************************************)
\* the list the pattern generator of this run returned
pattern == raw_data[1]

\* generate_simple_onoff has read three integers
SimpleOnOffRead ==
    /\ "onoff_repeats" \in DOMAIN typed
    /\ IsIntText(typed.onoff_repeats)

\* C11: for on_time > 0, off_time > 0 and repeats >= 1 generate_simple_onoff
\* returns 2 * repeats elements, +on_time at every even index and -off_time
\* at every odd index (indices from 0).
C11_SimpleOnOff ==
    (/\ SimpleOnOffRead
     /\ IntOf(typed.on_time) > 0
     /\ IntOf(typed.off_time) > 0
     /\ IntOf(typed.onoff_repeats) >= 1) =>
        /\ raw_data # None
        /\ Len(pattern) = 2 * IntOf(typed.onoff_repeats)
        /\ \A i \in DOMAIN pattern :
               pattern[i] = (IF (i - 1) % 2 = 0 THEN IntOf(typed.on_time)
                             ELSE -IntOf(typed.off_time))

\* C11 witness: 500 on, 1 off, three repeats, six elements returned
C11_Witness ==
    /\ SimpleOnOffRead
    /\ IntOf(typed.on_time) = 500
    /\ IntOf(typed.off_time) = 1
    /\ IntOf(typed.onoff_repeats) = 3
    /\ Len(pattern) = 6

\* C12: generate_simple_onoff returns no timing sequence when on_time <= 0,
\* off_time <= 0 or repeats <= 0, and never returns a sequence with a zero
\* element, a non-positive element at an even index or a non-negative one at
\* an odd index.
C12_InvalidParameter ==
    SimpleOnOffRead =>
        /\ (\/ IntOf(typed.on_time) <= 0
            \/ IntOf(typed.off_time) <= 0
            \/ IntOf(typed.onoff_repeats) <= 0) => pattern = <<>>
        /\ \A i \in DOMAIN pattern :
               /\ pattern[i] # 0
               /\ (i - 1) % 2 = 0 => pattern[i] > 0
               /\ (i - 1) % 2 = 1 => pattern[i] < 0

\* the '0' and '1' characters of a typed bit string, in order
BitsOf(text) == SelectSeq(Strip(text), LAMBDA ch : ch \in {"0", "1"})

\* generate_manchester has read its bit time and its data
ManchesterRead == "manchester_data" \in DOMAIN typed

\* the pattern is, bit by bit, the pair one for '1' and the pair zero for '0'
IsPerBit(p, bits, one, zero) ==
    /\ Len(p) = 2 * Len(bits)
    /\ \A k \in DOMAIN bits :
           <<p[2 * k - 1], p[2 * k]>> = (IF bits[k] = "1" THEN one ELSE zero)

\* C13: for every bit_time > 0, odd ones included, and every bit string
\* generate_manchester emits [+h, -h] for each '1' and [-h, +h] for each '0',
\* h being bit_time divided by 2 and truncated toward zero, so both elements
\* of a pair have the magnitude h.
C13_ManchesterTruncates ==
    (ManchesterRead /\ IntOf(typed.bit_time) > 0) =>
        LET h == IntOf(typed.bit_time) \div 2
        IN  /\ raw_data # None
            /\ IsPerBit(pattern, BitsOf(typed.manchester_data), <<h, -h>>, <<-h, h>>)

\* C13, what the code does instead: the positive element is bit_time // 2 and
\* the negative one is (-bit_time) // 2, one more in magnitude for an odd
\* bit_time.
C13_ManchesterFloors ==
    (ManchesterRead /\ IntOf(typed.bit_time) > 0) =>
        LET h == IntOf(typed.bit_time) \div 2
            r == IntOf(typed.bit_time) % 2
        IN  /\ raw_data # None
            /\ IsPerBit(pattern, BitsOf(typed.manchester_data),
                        <<h, -(h + r)>>, <<-(h + r), h>>)

\* generate_pwm has read its three integers and its data
PwmRead == "pwm_data" \in DOMAIN typed

\* C14: for every data string generate_pwm returns, in order, [+long_pulse,
\* -gap] for each '1' and [+short_pulse, -gap] for each '0'; any other
\* character adds nothing and raises nothing, so the length is twice the
\* number of '0' and '1' characters.
C14_Pwm ==
    PwmRead =>
        /\ raw_data # None
        /\ IsPerBit(pattern, BitsOf(typed.pwm_data),
                    <<IntOf(typed.long_pulse), -IntOf(typed.gap)>>,
                    <<IntOf(typed.short_pulse), -IntOf(typed.gap)>>)
        /\ Len(pattern) =
               2 * Cardinality({i \in DOMAIN typed.pwm_data :
                                    typed.pwm_data[i] \in {"0", "1"}})

\* C14 witness: data "1a0" gives the long pair and then the short pair
C14_Witness ==
    /\ PwmRead
    /\ typed.pwm_data = <<"1", "a", "0">>
    /\ IntOf(typed.gap) = 300
    /\ pattern = <<900, -300, 300, -300>>

\* generate_nec_like has read its data
NecRead == "nec_data" \in DOMAIN typed

\* the hex digits of a payload: the text without surrounding whitespace and
\* without a leading 0x or 0X
PayloadDigits(text) ==
    LET t == Strip(text)
    IN  IF StartsWith(t, <<"0", "x">>) \/ StartsWith(t, <<"0", "X">>)
        THEN SubSeq(t, 3, Len(t)) ELSE t

\* the payload is an unsigned value of at most 32 bits
IsUnsigned32(text) ==
    LET d == PayloadDigits(text)
    IN  /\ d # <<>>
        /\ \A i \in DOMAIN d : UpperChar(d[i]) \in UpperHex
        /\ Len(DropLeadingZeros(d)) <= 8

\* the value of up to four hex digits
RECURSIVE HexNat(_)
HexNat(d) ==
    IF d = <<>> THEN 0
    ELSE 16 * HexNat(SubSeq(d, 1, Len(d) - 1)) + HexValue(d[Len(d)])

RECURSIVE Pow2(_)
Pow2(n) == IF n = 0 THEN 1 ELSE 2 * Pow2(n - 1)

\* bit k of a 32-bit payload, k = 1 for the most significant bit, read from
\* the upper and the lower 16 bits of its value
PayloadBit(text, k) ==
    LET d == Zfill(DropLeadingZeros(PayloadDigits(text)), 8)
        upper == HexNat(SubSeq(d, 1, 4))
        lower == HexNat(SubSeq(d, 5, 8))
    IN  IF k <= 16 THEN (upper \div Pow2(16 - k)) % 2
        ELSE (lower \div Pow2(32 - k)) % 2

\* C15: for every payload that is a 32-bit unsigned value, typed as hex with
\* or without a 0x prefix, generate_nec_like returns exactly 67 elements: the
\* leader 9000, -4500, then for each of the 32 bits, most significant first,
\* 560, -1690 for a 1 or 560, -560 for a 0, then one trailing 560.
C15_NecLike ==
    (NecRead /\ IsUnsigned32(typed.nec_data)) =>
        /\ raw_data # None
        /\ Len(pattern) = 67
        /\ pattern[1] = 9000 /\ pattern[2] = -4500
        /\ \A k \in 1..32 :
               /\ pattern[2 * k + 1] = 560
               /\ pattern[2 * k + 2] =
                      (IF PayloadBit(typed.nec_data, k) = 1 THEN -1690 ELSE -560)
        /\ pattern[67] = 560

\* C15 witness: the payload 0x12345678 has been encoded
C15_Witness ==
    /\ NecRead
    /\ typed.nec_data = <<"0", "x", "1", "2", "3", "4", "5", "6", "7", "8">>
    /\ Len(pattern) = 67
    /\ pattern[8] = -560
    /\ pattern[10] = -1690

\* C16: generate_nec_like returns no timing sequence when its input does not
\* parse to an unsigned integer of at most 32 bits (text that is not hex, a
\* negative value, a value of 2^32 or more), and never returns a sequence
\* whose length is not 67.
C16_NecRejects ==
    NecRead =>
        /\ ~IsUnsigned32(typed.nec_data) => pattern = <<>>
        /\ pattern # <<>> => Len(pattern) = 67

\* C16, the part that stands: an input that is empty or holds a character
\* that is no hex digit, sign or x yields no sequence
C16_NonHexRejected ==
    NecRead =>
        LET t == Strip(typed.nec_data)
        IN  (t = <<>> \/ \E i \in DOMAIN t :
                             UpperChar(t[i]) \notin UpperHex \cup {"X", "+", "-"}) =>
                pattern = <<>>

\* generate_custom_repeat has read its base pattern and its two integers
CustomRepeatRead ==
    /\ "custom_gap" \in DOMAIN typed
    /\ IsIntText(typed.custom_gap)

\* C17: for every base pattern, repeats >= 1 and gap, generate_custom_repeat
\* returns repeats copies of the base in order; with gap > 0 one -gap element
\* stands between two consecutive copies and none after the last, the length
\* being repeats * len(base) + repeats - 1; with gap <= 0 nothing is inserted
\* and the length is repeats * len(base).
C17_CustomRepeat ==
    (CustomRepeatRead /\ IntOf(typed.custom_repeats) >= 1) =>
        LET base == IntList(Strip(typed.base_str))
            n == IntOf(typed.custom_repeats)
            g == IntOf(typed.custom_gap)
            stride == Len(base) + (IF g > 0 THEN 1 ELSE 0)
        IN  /\ raw_data # None
            /\ Len(pattern) = n * Len(base) + (IF g > 0 THEN n - 1 ELSE 0)
            /\ \A c \in 0..(n - 1) : \A j \in DOMAIN base :
                   pattern[c * stride + j] = base[j]
            /\ g > 0 => \A c \in 1..(n - 1) : pattern[c * stride] = -g

\* C17 witness: the base 100 -200 three times with a gap of 300
C17_Witness ==
    /\ CustomRepeatRead
    /\ IntOf(typed.custom_repeats) = 3
    /\ IntOf(typed.custom_gap) = 300
    /\ pattern = <<100, -200, -300, 100, -200, -300, 100, -200>>

(***************************************************************************)
(* Properties of the analysis tools.                                       *)
(***************************************************************************)
\* binary_to_timing has read its inputs and printed the timing
BinaryToTimingPrinted == handler = "analysis_tools" /\ "encoding" \in DOMAIN typed

IsPwm(text) == EncodingOf(text) = <<"p", "w", "m">>

IsManchester(text) ==
    EncodingOf(text) = <<"m", "a", "n", "c", "h", "e", "s", "t", "e", "r">>

\* C18 as stated: with encoding pwm the output of binary_to_timing is the
\* output of generate_pwm for the same short and long pulse, whatever gap
\* the encoder is given, and with encoding manchester it is the output of
\* generate_manchester, whatever bit time the encoder is given.
C18_SameAsEncoders ==
    BinaryToTimingPrinted =>
        /\ IsPwm(typed.encoding) =>
               \A g \in {x \in GapInputs : IsIntText(x)} :
                   report[1] = TimingText(generate_pwm(typed.short_pulse,
                                                       typed.long_pulse, g, typed.binary))
        /\ IsManchester(typed.encoding) =>
               \A t \in {x \in BitTimeInputs : IsIntText(x)} :
                   report[1] = TimingText(generate_manchester(t, typed.binary))

\* C18 as amended: with encoding pwm (also when the encoding is left empty)
\* the output of binary_to_timing is the output of generate_pwm for the same
\* short and long pulse and a gap equal to the short pulse; with encoding
\* manchester it is the output of generate_manchester for a bit time of
\* twice the short pulse; any other encoding gives an empty output.
C18_SameRulesOwnParameters ==
    BinaryToTimingPrinted =>
        /\ IsPwm(typed.encoding) =>
               report[1] = TimingText(generate_pwm(typed.short_pulse, typed.long_pulse,
                                                   typed.short_pulse, typed.binary))
        /\ IsManchester(typed.encoding) =>
               report[1] = TimingText(generate_manchester(
                                          Str(2 * IntOf(typed.short_pulse)), typed.binary))
        /\ (~IsPwm(typed.encoding) /\ ~IsManchester(typed.encoding)) => report[1] = <<>>

\* C18 witness: "10" converted as pwm with pulses 300 and 900
C18_Witness ==
    /\ BinaryToTimingPrinted
    /\ IsPwm(typed.encoding)
    /\ typed.binary = <<"1", "0">>
    /\ report[1] = TimingText(<<900, -300, 300, -300>>)

\* analyze_timing has read a list of integers
AnalyzeRead ==
    /\ handler = "analysis_tools"
    /\ "timing_str" \in DOMAIN typed
    /\ IsIntList(Strip(typed.timing_str))

\* the sum of the magnitudes of the elements of q at the indices in I
RECURSIVE MagnitudeSum(_, _)
MagnitudeSum(q, I) ==
    IF I = {} THEN 0
    ELSE LET i == CHOOSE j \in I : TRUE
             m == IF q[i] < 0 THEN -q[i] ELSE q[i]
         IN  m + MagnitudeSum(q, I \ {i})

\* the statistics line of one side: the least and the greatest magnitude at
\* the indices in I, and the quotient of their sum by their number, rounded
\* down
SideLine(label, q, I) ==
    LET M == {IF q[i] < 0 THEN -q[i] ELSE q[i] : i \in I}
        least == CHOOSE m \in M : \A x \in M : m <= x
        greatest == CHOOSE m \in M : \A x \in M : m >= x
        avg == CHOOSE a \in 0..greatest :
                   /\ a * Cardinality(I) <= MagnitudeSum(q, I)
                   /\ MagnitudeSum(q, I) < (a + 1) * Cardinality(I)
    IN  <<label>> \o Str(least) \o <<"us, Max: ">> \o Str(greatest)
        \o <<"us, Avg: ">> \o Str(avg) \o <<"us">>

\* C19: for every list of integers analyze_timing reports the count, the
\* number of elements > 0 and the number of elements < 0, and for each side
\* that has elements the min, max and floor-division average of the
\* magnitudes, those of the negative side as positive numbers; a side
\* without elements gets no line and nothing is divided by zero; zeros count
\* toward the total only; 500 -500 1000 -500 gives 2 and 2, ON 500/1000/750,
\* OFF 500/500/500.
C19_Analyze ==
    AnalyzeRead =>
        LET q == IntList(Strip(typed.timing_str))
            P == {i \in DOMAIN q : q[i] > 0}
            N == {i \in DOMAIN q : q[i] < 0}
            on == IF P = {} THEN <<>> ELSE <<SideLine("ON times - Min: ", q, P)>>
            off == IF N = {} THEN <<>> ELSE <<SideLine("OFF times - Min: ", q, N)>>
        IN  /\ report = << <<"Total values: ">> \o Str(Len(q)),
                           <<"Positive values: ">> \o Str(Cardinality(P)),
                           <<"Negative values: ">> \o Str(Cardinality(N)) >>
                        \o on \o off
            /\ q = <<500, -500, 1000, -500>> =>
                   /\ report[2] = <<"Positive values: ", "2">>
                   /\ report[3] = <<"Negative values: ", "2">>
                   /\ report[4] = <<"ON times - Min: ", "5", "0", "0", "us, Max: ",
                                    "1", "0", "0", "0", "us, Avg: ", "7", "5", "0", "us">>
                   /\ report[5] = <<"OFF times - Min: ", "5", "0", "0", "us, Max: ",
                                    "5", "0", "0", "us, Avg: ", "5", "0", "0", "us">>

\* C19 witness: a list with a zero and negatives only has been analyzed
C19_Witness ==
    /\ AnalyzeRead
    /\ IntList(Strip(typed.timing_str)) = <<-7, 0, -2>>
    /\ Len(report) = 4
    /\ report[1] = <<"Total values: ", "3">>
    /\ report[4][1] = "OFF times - Min: "

(***************************************************************************)
(* Reading a raw timing line back.                                         *)
(***************************************************************************)
\* a serializer has returned from a RAW call that carried timing data
RawWritten ==
    /\ pc \in {"subghz_returned", "ir_returned"}
    /\ kwargs.protocol = "RAW"
    /\ "raw_data" \in DOMAIN kwargs

RawLabel == IF pc = "subghz_returned" THEN "RAW_Data: " ELSE "data: "

\* the text after the label of the timing line of the file just written
RawText == ValueOf(written[Len(written)].content, RawLabel)

\* C20: the text after "RAW_Data: " (Sub-GHz) or "data: " (IR), split on
\* whitespace and converted to integers, is the sequence that was written:
\* same length, order, signs and magnitudes.
C20_RoundTrip ==
    RawWritten =>
        /\ IsIntList(RawText)
        /\ Len(IntList(RawText)) = Len(kwargs.raw_data)
        /\ \A i \in DOMAIN kwargs.raw_data : IntList(RawText)[i] = kwargs.raw_data[i]

\* C20 witness: an IR file holding a negative value, a zero and a one-digit
\* value has been written
C20_Witness ==
    /\ RawWritten
    /\ pc = "ir_returned"
    /\ kwargs.raw_data = <<-4500, 0, 7>>
    /\ RawText = <<"-", "4", "5", "0", "0", " ", "0", " ", "7">>

(***************************************************************************)
(* Properties of whole wizard runs.                                        *)
(***************************************************************************)
\* a wizard has handed a raw timing sequence to its serializer
RawHandedOver ==
    /\ handler \in {"subghz_wizard", "ir_wizard"}
    /\ written # <<>>
    /\ kwargs.protocol = "RAW"

\* C21: every raw timing sequence a Sub-GHz or IR wizard run hands to the
\* serializer has at least 4 elements, whichever collection method produced
\* it, so no file is written from a shorter sequence.
C21_MinimumFour ==
    RawHandedOver => Len(kwargs.raw_data) >= 4

\* the minimum holds for manual entry (method 1) and for the common IR
\* patterns (method 4), the two methods that cannot return a shorter list
C21_MinimumFourManualAndCommon ==
    (RawHandedOver /\ typed.method \in {<<"1">>, <<"4">>}) => Len(kwargs.raw_data) >= 4

\* a file has been written from a manually entered sequence
C21_ManualWritten ==
    /\ RawHandedOver
    /\ typed.method = <<"1">>
    /\ kwargs.raw_data = <<500, -500, 1000, -500>>

\* a collection step of the running wizard has yielded nothing, or has not
\* yielded yet
YieldedNothing ==
    \/ protocol = ""
    \/ handler = "subghz_wizard" /\ ~Truthy(frequency)
    \/ protocol = "RAW" /\ ~NonEmpty(raw_data)
    \/ handler = "ir_wizard" /\ protocol # "RAW" /\ (address = <<>> \/ command = <<>>)

\* C22: a wizard run writes at most one file, and none when a collection
\* step yields nothing (protocol or frequency selection quit, RAW timing data
\* absent or empty, IR address or command empty): the wizard then returns
\* before the output filename is requested.
C22_AtMostOneFile ==
    handler \in {"subghz_wizard", "ir_wizard"} =>
        /\ Len(written) <= 1
        /\ YieldedNothing => (written = <<>> /\ "output_file" \notin DOMAIN typed)
        /\ (pc = "get_output_filename" \/ written # <<>>) => ~YieldedNothing

\* C22 witness: a Sub-GHz wizard run has returned to the menu after a
\* pattern generator gave it an empty list, with no file written
C22_Witness ==
    /\ handler = "subghz_wizard"
    /\ pc = "main_menu"
    /\ protocol = "RAW"
    /\ Truthy(frequency)
    /\ raw_data = << <<>> >>
    /\ written = <<>>

\* another such end of a run: the IR wizard has returned to the menu after
\* an address and an empty command were typed
C22_IrCommandEmpty ==
    /\ handler = "ir_wizard"
    /\ pc = "main_menu"
    /\ address # <<>>
    /\ command = <<>>
    /\ "command" \in DOMAIN typed
    /\ written = <<>>

====
